---- MODULE Spec2Model ----
(***************************************************************************)
(* Audio preprocessing pipeline of BienBanHop: processAudio and            *)
(* audioBufferToWav (src/unnamed/part_001), and the batch handler that     *)
(* calls it, handleProcessFile with handleCancel (src/App.tsx).            *)
(*                                                                         *)
(* Specifications: Spec (one processAudio call), SpecWav (the encoder on   *)
(* its own), SpecTrim (the trimmer's scan, one iteration per step),        *)
(* SpecApp (one batch), SpecAppTwice (a batch started while another is     *)
(* suspended), SpecMinutes (generation and edit of the minutes).           *)
(*                                                                         *)
(* A sample is an exact rational <<n, d>> (d > 0, lowest terms), so that   *)
(* the gate's factor 0.2 and the normalizer's gain 0.95 / max are applied  *)
(* without loss; Float32 rounding is not modelled.  Sample indices are     *)
(* 0-based as in the source; sequence positions are index + 1.             *)
(***************************************************************************)
EXTENDS Integers, Sequences, FiniteSets, TLC

\* one processAudio call
VARIABLES pc, file, options, originalBuffer, processedBuffer, result, error, history
\* the component that calls it: React state, the cancel ref, the locals of one
\* handleProcessFile invocation (hpc is its position, fileIndex its loop
\* variable i) and the calls it made
VARIABLES hpc, selectedFiles, processingOptions, isLoading, cancelRequestRef,
          fileIndex, fileToProcess, allContent, transcription, uiError, calls

\* the trimmer's scan taken one loop iteration at a time: scanIndex is the loop
\* variable i of line 114, scanInSound, scanSoundStart and scanIntervals are
\* inSound, soundStart and soundIntervals of lines 110-112, writeOffset is the
\* `offset` of line 136; reads lists the index ranges whose samples the scan
\* and the look-ahead have read
VARIABLES scanIndex, scanInSound, scanSoundStart, scanIntervals, writeOffset, reads
\* a second handleProcessFile invocation: run is the invocation whose locals
\* the variables above hold, other keeps the locals of the suspended one
VARIABLES run, other
\* handleGenerateMinutes and handleRequestEdits: mpc is the position of the
\* invocation, resultHtml its local
VARIABLES mpc, meetingMinutesHtml, savedSessions, isGeneratingMinutes, isEditingMinutes,
          minutesError, editError, lastMeetingDetails, resultHtml

scanVars == <<scanIndex, scanInSound, scanSoundStart, scanIntervals, writeOffset, reads>>
runVars == <<run, other>>
minutesVars == <<mpc, meetingMinutesHtml, savedSessions, isGeneratingMinutes,
                 isEditingMinutes, minutesError, editError, lastMeetingDetails, resultHtml>>
\* what an action of processAudio or of one batch run leaves alone
restVars == <<scanVars, runVars, minutesVars>>

appVars == <<hpc, selectedFiles, processingOptions, isLoading, cancelRequestRef,
             fileIndex, fileToProcess, allContent, transcription, uiError, calls>>

vars == <<pc, file, options, originalBuffer, processedBuffer, result, error, history,
          hpc, selectedFiles, processingOptions, isLoading, cancelRequestRef,
          fileIndex, fileToProcess, allContent, transcription, uiError, calls,
          scanIndex, scanInSound, scanSoundStart, scanIntervals, writeOffset, reads,
          run, other,
          mpc, meetingMinutesHtml, savedSessions, isGeneratingMinutes, isEditingMinutes,
          minutesError, editError, lastMeetingDetails, resultHtml>>

(***************************************************************************)
(* Bounds of the model.                                                    *)
(***************************************************************************)
\* longest decoded buffer, in samples per channel
MaxLen == 2
\* most samples (channels x frames) of a buffer handed to audioBufferToWav on its own
MaxWavSamples == 4
\* most files of one batch
MaxFiles == 2
\* most runs of equal samples in a buffer handed to the trimmer on its own
MaxRuns == 4

(***************************************************************************)
(* Exact arithmetic on samples.                                            *)
(***************************************************************************)
Abs(x) == IF x < 0 THEN -x ELSE x

RECURSIVE GCD(_, _)
GCD(a, b) == IF b = 0 THEN a ELSE GCD(b, a % b)

Rat(n, d) == LET g == GCD(Abs(n), d) IN <<n \div g, d \div g>>

RAbs(x) == <<Abs(x[1]), x[2]>>
RLt(x, y) == x[1] * y[2] < y[1] * x[2]
RLe(x, y) == x[1] * y[2] <= y[1] * x[2]
RMul(x, y) == Rat(x[1] * y[1], x[2] * y[2])
RDiv(x, y) == Rat(x[1] * y[2], x[2] * y[1])
RMax(x, y) == IF RLt(x, y) THEN y ELSE x
RMin(x, y) == IF RLt(y, x) THEN y ELSE x
Zero == <<0, 1>>
One == <<1, 1>>
MinusOne == <<-1, 1>>

\* Math.floor of a non-negative rational
Floor(x) == x[1] \div x[2]

\* (n * k) / d truncated toward zero, the effect of "| 0" on a value that fits 32 bits
TruncToInt32(n, k, d) == IF n >= 0 THEN (n * k) \div d ELSE -(((-n) * k) \div d)

Zeros(n) == [i \in 1..n |-> Zero]

(***************************************************************************)
(* Program constants.                                                      *)
(***************************************************************************)
targetSampleRate == 16000
silenceThreshold == <<1, 100>>
minSilenceDuration == <<3, 10>>
paddingDuration == <<1, 10>>
noiseThreshold == <<1, 50>>
reductionAmount == <<1, 5>>
normalizeFloor == <<1, 1000>>
targetPeak == <<19, 20>>
DecodeErrorMessage ==
    "Audio decoding failed. The file may be corrupt or in a format not supported by your browser."
NotSupportedError == "NotSupportedError"
NoError == "none"
NoBuffer == [none |-> TRUE]
NoFile == [none |-> TRUE]
Corrupt == [corrupt |-> TRUE]

(***************************************************************************)
(* AudioBuffer                                                             *)
(***************************************************************************)
AudioBuffer(numberOfChannels, sampleRate, channels) ==
    [numberOfChannels |-> numberOfChannels, sampleRate |-> sampleRate,
     length |-> Len(channels[1]), channels |-> channels]

\* audioContext.createBuffer(1, length, sampleRate): one channel of zeros
createBuffer(length, sampleRate) == AudioBuffer(1, sampleRate, <<Zeros(length)>>)

\* buffer.getChannelData(0)
getChannelData0(buffer) == buffer.channels[1]

(***************************************************************************)
(* audioBufferToWav (lines 15-63)                                          *)
(***************************************************************************)
RIFF == 1179011410
WAVE == 1163280727
FMT == 544501094
DATA == 1635017060

\* view.setUint16(pos, data, true): two bytes, little-endian, data modulo 2^16
setUint16(data) == LET v == data % 65536 IN <<v % 256, v \div 256>>

\* view.setUint32(pos, data, true): four bytes, little-endian (every value the
\* encoder writes here is below 2^31)
setUint32(data) ==
    <<data % 256, (data \div 256) % 256, (data \div 65536) % 256, (data \div 16777216) % 256>>

\* view.setInt16(pos, sample, true): two's complement, sample modulo 2^16
setInt16(sample) == setUint16(((sample % 65536) + 65536) % 65536)

\* a length that forgets the channel count
WavLengthMono(buffer) == buffer.length * 2 + 44

\* const length = buffer.length * numOfChan * 2 + 44
WavLength(buffer) == buffer.length * buffer.numberOfChannels * 2 + 44

\* lines 33-45: the thirteen header writes; pos is the write position
WavHeader(buffer) ==
    LET numOfChan == buffer.numberOfChannels
        length == WavLength(buffer)
        head == setUint32(RIFF) \o setUint32(length - 8) \o setUint32(WAVE)
                \o setUint32(FMT) \o setUint32(16) \o setUint16(1)
                \o setUint16(numOfChan) \o setUint32(buffer.sampleRate)
                \o setUint32(buffer.sampleRate * 2 * numOfChan)
                \o setUint16(numOfChan * 2) \o setUint16(16) \o setUint32(DATA)
        pos == Len(head)
    IN head \o setUint32(length - pos - 4)

\* a sample written without clamping
ClampNothing(sample) == sample

\* line 54: Math.max(-1, Math.min(1, sample))
Clamp(sample) == RMax(MinusOne, RMin(One, sample))

\* line 55: (0.5 + sample < 0 ? sample * 32768 : sample * 32767) | 0
\* (0.5 + n/d < 0 is 2n + d < 0)
Quantize(sample) ==
    IF 2 * sample[1] + sample[2] < 0
    THEN TruncToInt32(sample[1], 32768, sample[2])
    ELSE TruncToInt32(sample[1], 32767, sample[2])

\* lines 51-60: sample frames in order, the channels of a frame interleaved
WavSamples(buffer) ==
    LET numOfChan == buffer.numberOfChannels
        pcm == [k \in 1..(buffer.length * numOfChan) |->
                   Quantize(Clamp(buffer.channels[((k - 1) % numOfChan) + 1]
                                                 [((k - 1) \div numOfChan) + 1]))]
    IN [b \in 1..(2 * buffer.length * numOfChan) |->
           setInt16(pcm[((b - 1) \div 2) + 1])[((b - 1) % 2) + 1]]

\* the Blob returned at line 62
audioBufferToWav(buffer) ==
    [type |-> "audio/wav", bytes |-> WavHeader(buffer) \o WavSamples(buffer)]

\* reading the container back: little-endian fields at a 0-based byte offset
getUint16(bytes, at) == bytes[at + 1] + 256 * bytes[at + 2]
getUint32(bytes, at) ==
    bytes[at + 1] + 256 * bytes[at + 2] + 65536 * bytes[at + 3] + 16777216 * bytes[at + 4]
getInt16(bytes, at) ==
    LET u == getUint16(bytes, at) IN IF u >= 32768 THEN u - 65536 ELSE u

(***************************************************************************)
(* processAudio, step 2: remove silence (lines 102-152)                    *)
(***************************************************************************)
minSilenceSamples(sampleRate) ==
    Floor(<<minSilenceDuration[1] * sampleRate, minSilenceDuration[2]>>)
paddingSamples(sampleRate) ==
    Floor(<<paddingDuration[1] * sampleRate, paddingDuration[2]>>)

\* Math.abs(channelData[i]) < silenceThreshold, i 0-based
IsSilent(channelData, i) == RLt(RAbs(channelData[i + 1]), silenceThreshold)
\* Math.abs(channelData[i]) > silenceThreshold
IsLoud(channelData, i) == RLt(silenceThreshold, RAbs(channelData[i + 1]))

\* the comparison of line 123 turned round
QualifiesForCutInverted(silenceEnd, i, minSilence) == (silenceEnd - i) <= minSilence

\* a cut that needs more than the minimum
QualifiesForCutStrict(silenceEnd, i, minSilence) == (silenceEnd - i) > minSilence

\* line 123: (silenceEnd - i) >= minSilenceSamples
QualifiesForCut(silenceEnd, i, minSilence) == (silenceEnd - i) >= minSilence

\* a look-ahead that also runs over samples exactly at the threshold
SilenceEndInclusive(channelData, silenceEnd) ==
    LET n == Len(channelData)
        stops == {k \in silenceEnd..(n - 1) : IsLoud(channelData, k)}
    IN IF stops = {} THEN n ELSE CHOOSE k \in stops : \A j \in stops : k <= j

\* lines 119-122: the look-ahead over a run of silent samples, from index
\* silenceEnd on: it stops at the first sample that is not silent, or at the end
SilenceEnd(channelData, silenceEnd) ==
    LET n == Len(channelData)
        stops == {k \in silenceEnd..(n - 1) : ~IsSilent(channelData, k)}
    IN IF stops = {} THEN n ELSE CHOOSE k \in stops : \A j \in stops : k <= j

\* a jump that leaves the loop variable where it is
NextIndexNoJump(silenceEnd, i) == i
\* line 127: i = silenceEnd - 1
NextIndex(silenceEnd, i) == silenceEnd - 1

\* lines 114-129: the scan from index i on
RECURSIVE Scan(_, _, _, _, _, _)
Scan(channelData, minSilence, i, inSound, soundStart, soundIntervals) ==
    IF ~(i < Len(channelData))
    THEN [inSound |-> inSound, soundStart |-> soundStart, soundIntervals |-> soundIntervals]
    ELSE IF ~inSound /\ IsLoud(channelData, i)
    THEN Scan(channelData, minSilence, i + 1, TRUE, i, soundIntervals)
    ELSE IF inSound /\ IsSilent(channelData, i)
    THEN LET silenceEnd == SilenceEnd(channelData, i)
             cut == QualifiesForCut(silenceEnd, i, minSilence)
         IN Scan(channelData, minSilence, NextIndex(silenceEnd, i) + 1,
                 IF cut THEN FALSE ELSE inSound, soundStart,
                 IF cut THEN Append(soundIntervals, [start |-> soundStart, end |-> i])
                        ELSE soundIntervals)
    ELSE Scan(channelData, minSilence, i + 1, inSound, soundStart, soundIntervals)

\* a closing interval that leaves out the buffer's last sample
ClosingIntervalShort(soundStart, length) == [start |-> soundStart, end |-> length - 1]
\* line 130: { start: soundStart, end: channelData.length }
ClosingInterval(soundStart, length) == [start |-> soundStart, end |-> length]

\* lines 110-130: the intervals after the scan and the closing push
SoundIntervals(channelData, sampleRate) ==
    LET s == Scan(channelData, minSilenceSamples(sampleRate), 0, FALSE, 0, <<>>)
    IN IF s.inSound
       THEN Append(s.soundIntervals, ClosingInterval(s.soundStart, Len(channelData)))
       ELSE s.soundIntervals

\* a reduce that adds the padding three times per interval
RECURSIVE TotalLengthTriplePadding(_, _)
TotalLengthTriplePadding(soundIntervals, padding) ==
    IF soundIntervals = <<>> THEN 0
    ELSE (Head(soundIntervals).end - Head(soundIntervals).start) + padding * 3
         + TotalLengthTriplePadding(Tail(soundIntervals), padding)

\* line 133: the reduce over the intervals
RECURSIVE TotalLength(_, _)
TotalLength(soundIntervals, padding) ==
    IF soundIntervals = <<>> THEN 0
    ELSE (Head(soundIntervals).end - Head(soundIntervals).start) + padding * 2
         + TotalLength(Tail(soundIntervals), padding)

\* typedArray.set(source, offset)
SetAt(array, source, offset) ==
    LET n == Len(source)
    IN [k \in 1..Len(array) |->
           IF offset < k /\ k <= offset + n THEN source[k - offset] ELSE array[k]]

\* a forEach that writes the segment before its leading padding
RECURSIVE CopyIntervalsSegmentFirst(_, _, _, _, _)
CopyIntervalsSegmentFirst(newChannelData, channelData, soundIntervals, padding, offset) ==
    IF soundIntervals = <<>> THEN [data |-> newChannelData, offset |-> offset]
    ELSE LET interval == Head(soundIntervals)
             segment == SubSeq(channelData, interval.start + 1, interval.end)
             a == SetAt(newChannelData, segment, offset)
             b == SetAt(a, Zeros(padding), offset + Len(segment))
             c == SetAt(b, Zeros(padding), offset + Len(segment) + padding)
         IN CopyIntervalsSegmentFirst(c, channelData, Tail(soundIntervals), padding,
                                      offset + padding + Len(segment) + padding)

\* lines 136-145: the forEach over the intervals, from write offset `offset`
RECURSIVE CopyIntervals(_, _, _, _, _)
CopyIntervals(newChannelData, channelData, soundIntervals, padding, offset) ==
    IF soundIntervals = <<>> THEN [data |-> newChannelData, offset |-> offset]
    ELSE LET interval == Head(soundIntervals)
             segment == SubSeq(channelData, interval.start + 1, interval.end)
             a == SetAt(newChannelData, Zeros(padding), offset)
             b == SetAt(a, segment, offset + padding)
             c == SetAt(b, Zeros(padding), offset + padding + Len(segment))
         IN CopyIntervals(c, channelData, Tail(soundIntervals), padding,
                          offset + padding + Len(segment) + padding)

\* a fallback buffer of no sample at all
SilentFallbackEmpty(sampleRate) == createBuffer(0, sampleRate)

\* lines 149-150: audioContext.createBuffer(1, 1, sampleRate)
SilentFallback(sampleRate) == createBuffer(1, sampleRate)

\* lines 102-152: the buffer that replaces processedBuffer
RemoveSilence(buffer) ==
    LET channelData == getChannelData0(buffer)
        sampleRate == buffer.sampleRate
        padding == paddingSamples(sampleRate)
        soundIntervals == SoundIntervals(channelData, sampleRate)
    IN IF Len(soundIntervals) > 0
       THEN LET totalLength == TotalLength(soundIntervals, padding)
                newBuffer == createBuffer(totalLength, sampleRate)
            IN AudioBuffer(1, sampleRate,
                   <<CopyIntervals(getChannelData0(newBuffer), channelData,
                                   soundIntervals, padding, 0).data>>)
       ELSE SilentFallback(sampleRate)

(***************************************************************************)
(* processAudio, step 3: noise gate (lines 155-163)                        *)
(***************************************************************************)
\* a gate that also attenuates a sample exactly at the threshold
NoiseGateInclusive(channelData) ==
    [i \in 1..Len(channelData) |->
        IF RLe(RAbs(channelData[i]), noiseThreshold)
        THEN RMul(channelData[i], reductionAmount)
        ELSE channelData[i]]

\* lines 158-162
NoiseGate(channelData) ==
    [i \in 1..Len(channelData) |->
        IF RLt(RAbs(channelData[i]), noiseThreshold)
        THEN RMul(channelData[i], reductionAmount)
        ELSE channelData[i]]

(***************************************************************************)
(* processAudio, step 4: normalize volume (lines 166-181)                  *)
(***************************************************************************)
\* line 167: channelData.reduce((max, val) => Math.max(max, Math.abs(val)), 0),
\* the greatest of 0 and the absolute values
Peak(channelData) ==
    LET values == {Zero} \cup {RAbs(channelData[i]) : i \in 1..Len(channelData)}
    IN CHOOSE max \in values : \A v \in values : RLe(v, max)

\* a floor test that lets a peak exactly at the floor through
NeedsGainInclusive(max) == RLe(normalizeFloor, max)

\* line 168
NeedsGain(max) == RLt(normalizeFloor, max)

\* lines 171-179: the source rendered through a gain node of value gainValue
RenderGain(buffer, gainValue) ==
    AudioBuffer(1, buffer.sampleRate,
        <<[i \in 1..buffer.length |-> RMul(getChannelData0(buffer)[i], gainValue)]>>)

\* a gain computed upside down, max / targetPeak
NormalizeInvertedGain(buffer) ==
    LET max == Peak(getChannelData0(buffer))
    IN IF NeedsGain(max)
       THEN LET gainValue == RDiv(max, targetPeak) IN RenderGain(buffer, gainValue)
       ELSE buffer

\* lines 166-181
Normalize(buffer) ==
    LET max == Peak(getChannelData0(buffer))
    IN IF NeedsGain(max)
       THEN LET gainValue == RDiv(targetPeak, max) IN RenderGain(buffer, gainValue)
       ELSE buffer

(***************************************************************************)
(* Inputs.                                                                 *)
(***************************************************************************)
\* sample values of decoded buffers: zero, below the silence threshold 0.01,
\* well above every threshold
Samples == {Zero, <<-1, 200>>, <<1, 2>>}
\* sample values an offline rendering may produce
RenderedSamples == {Zero, <<1, 2>>}
\* sample values handed to the encoder on its own: inside, on the ends of and
\* outside [-1, 1], on both sides of -0.5
WavSampleValues ==
    {Zero, <<-1, 4>>, <<-3, 4>>, <<1, 2>>, <<3, 2>>, <<-3, 2>>, One, MinusOne}
WavRates == {targetSampleRate, 44100}

SeqsUpTo(S, n) == UNION {[1..k -> S] : k \in 1..n}

\* decoded contents on the thresholds: a sample exactly at the silence threshold
\* 0.01, alone and inside sound; exactly at the noise threshold 0.02; exactly at
\* the normalizer floor 0.001; a short silent run between two sounds
BoundaryContents ==
    { <<(<<1, 100>>)>>,
      <<(<<1, 2>>), (<<1, 100>>)>>,
      <<(<<1, 50>>)>>,
      <<(<<-1, 200>>), (<<1, 50>>)>>,
      <<(<<1, 1000>>)>>,
      <<(<<1, 2>>), Zero, (<<1, 2>>)>> }

\* decoded buffers already in the target format: every content up to MaxLen
\* over Samples, and the contents on the thresholds
StandardBuffers ==
    {AudioBuffer(1, targetSampleRate, <<data>>) :
        data \in SeqsUpTo(Samples, MaxLen) \cup BoundaryContents}
\* decoded buffers of another rate or channel count; what is rendered from them
\* is chosen when they are resampled
OtherFormats == {<<2, targetSampleRate>>, <<1, 32000>>, <<2, 48000>>}
OtherBuffers ==
    {AudioBuffer(t[1][1], t[1][2], [ch \in 1..t[1][1] |-> [i \in 1..t[2] |-> <<1, 2>>]]) :
        t \in OtherFormats \X (1..MaxLen)}
DecodedBuffers == StandardBuffers \cup OtherBuffers

\* the raw bytes of an input file, known by what the platform decoder makes of them
RawInputs == {[decodesTo |-> d] : d \in DecodedBuffers \cup {Corrupt}}

FileNames == {<<"a", ".", "m">>, <<"a">>, <<".", "m">>, <<"a", ".", "b", ".", "m">>}
InputFiles ==
    {[name |-> <<"a", ".", "m">>, type |-> "audio/mpeg", bytes |-> raw] : raw \in RawInputs}
    \cup {[name |-> n, type |-> "audio/mpeg",
           bytes |-> [decodesTo |-> AudioBuffer(1, targetSampleRate, <<<<Zero>>>>)]] :
            n \in FileNames}

ProcessingOptions ==
    [convertToMono16kHz : BOOLEAN, noiseReduction : BOOLEAN,
     normalizeVolume : BOOLEAN, removeSilence : BOOLEAN]

\* buffers for audioBufferToWav on its own: c channels of n frames, c * n <= MaxWavSamples
WavShapes ==
    {u \in (1..MaxWavSamples) \X (1..MaxWavSamples) : u[1] * u[2] <= MaxWavSamples}

(***************************************************************************)
(* processAudio (lines 71-196)                                             *)
(***************************************************************************)
\* line 84: Object.values(options).some(v => v)
needsProcessing(opts) ==
    opts.convertToMono16kHz \/ opts.noiseReduction \/ opts.normalizeVolume \/ opts.removeSilence

\* a format test that looks at the rate alone
isStandardFormatRateOnly(buffer) == buffer.sampleRate = targetSampleRate

\* a format test that also looks at the resample flag
isStandardFormatUnlessAsked(buffer) ==
    \/ ~options.convertToMono16kHz
    \/ (buffer.sampleRate = targetSampleRate /\ buffer.numberOfChannels = 1)

\* line 89
isStandardFormat(buffer) ==
    buffer.sampleRate = targetSampleRate /\ buffer.numberOfChannels = 1

\* line 91: originalBuffer.duration * targetSampleRate as the unsigned long length
\* of the OfflineAudioContext (duration = length / sampleRate)
RenderLength(buffer) == (buffer.length * targetSampleRate) \div buffer.sampleRate

\* the stage that follows resampling, trimming, gating (lines 102, 155, 166, 183)
AfterGate(opts) == IF opts.normalizeVolume THEN "Normalize" ELSE "Encode"
\* a gate that runs whatever its flag says
AfterTrimAlwaysGate(opts) == "Gate"
AfterTrim(opts) == IF opts.noiseReduction THEN "Gate" ELSE AfterGate(opts)
AfterResample(opts) == IF opts.removeSilence THEN "Trim" ELSE AfterTrim(opts)

\* the first '.' instead of the last
IndexOfDot(name) ==
    LET at == {k \in 1..Len(name) : name[k] = "."}
    IN IF at = {} THEN -1 ELSE (CHOOSE k \in at : \A j \in at : k <= j) - 1

\* file.name.lastIndexOf('.'), 0-based, -1 when there is none
LastIndexOfDot(name) ==
    LET at == {i \in 1..Len(name) : name[i] = "."}
    IN IF at = {} THEN -1 ELSE (CHOOSE i \in at : \A j \in at : j <= i) - 1

\* line 184: file.name.substring(0, file.name.lastIndexOf('.')) || file.name
originalFileName(name) ==
    LET end == LastIndexOfDot(name)
        stem == SubSeq(name, 1, IF end < 0 THEN 0 ELSE end)
    IN IF stem = <<>> THEN name ELSE stem

\* line 185
newFileName(name) == originalFileName(name) \o <<"_processed.wav">>

\* a file cut off after the container's header
NewFileHeaderOnly(wavBlob, name) ==
    [name |-> name, type |-> "audio/wav", bytes |-> SubSeq(wavBlob.bytes, 1, 44)]

\* line 187: new File([wavBlob], newFileName, { type: 'audio/wav' })
NewFile(wavBlob, name) == [name |-> name, type |-> "audio/wav", bytes |-> wavBlob.bytes]

\* the stages run so far, in order
StagesRun == [k \in 1..Len(history) |-> history[k].stage]
Ran(stage) == \E k \in 1..Len(history) : history[k].stage = stage
\* the buffer the named stage received
InputOf(stage) == history[CHOOSE k \in 1..Len(history) : history[k].stage = stage].input
\* the buffer the named stage left behind
OutputOf(stage) ==
    LET k == CHOOSE j \in 1..Len(history) : history[j].stage = stage
    IN IF k = Len(history) THEN processedBuffer ELSE history[k + 1].input
LastStage == IF history = <<>> THEN "none" ELSE history[Len(history)].stage
Record(stage, input) == history' = Append(history, [stage |-> stage, input |-> input])

\* a catch block that replaces every error by the generic one of line 194
ThrowUnexpected(message) ==
    /\ pc' = "Failed"
    /\ error' = "An unexpected error occurred during audio pre-processing."

\* lines 189-195: every throw inside the try is re-thrown to the caller
Throw(message) ==
    /\ pc' = "Failed"
    /\ error' = message

\* lines 72-75: the context is created and the file's bytes are read
Start ==
    /\ pc = "Idle"
    /\ pc' = "Decoding"
    /\ UNCHANGED <<file, options, originalBuffer, processedBuffer, result, error, history>>
    /\ UNCHANGED appVars
    /\ UNCHANGED restVars

\* lines 76-80: decodeAudioData rejects
DecodeFail ==
    /\ pc = "Decoding"
    /\ file.bytes.decodesTo = Corrupt
    /\ Throw(DecodeErrorMessage)
    /\ Record("Decode", NoBuffer)
    /\ UNCHANGED <<file, options, originalBuffer, processedBuffer, result>>
    /\ UNCHANGED appVars
    /\ UNCHANGED restVars

\* lines 77-90: decodeAudioData resolves; the no-op return; the format test
DecodeOk ==
    /\ pc = "Decoding"
    /\ file.bytes.decodesTo # Corrupt
    /\ originalBuffer' = file.bytes.decodesTo
    /\ processedBuffer' = originalBuffer'
    /\ Record("Decode", NoBuffer)
    /\ IF ~needsProcessing(options)
       THEN /\ result' = file
            /\ pc' = "Done"
       ELSE /\ pc' = IF isStandardFormat(processedBuffer') THEN AfterResample(options)
                     ELSE "Resample"
            /\ UNCHANGED result
    /\ UNCHANGED <<file, options, error>>
    /\ UNCHANGED appVars
    /\ UNCHANGED restVars

\* lines 91-97: the offline context cannot be created for a length of 0
ResampleFail ==
    /\ pc = "Resample"
    /\ RenderLength(originalBuffer) = 0
    /\ Throw(NotSupportedError)
    /\ Record("Resample", originalBuffer)
    /\ UNCHANGED <<file, options, originalBuffer, processedBuffer, result>>
    /\ UNCHANGED appVars
    /\ UNCHANGED restVars

\* lines 91-97: the rendering yields one channel at the target rate; its samples
\* are the platform's mix and interpolation, any values
Resample ==
    /\ pc = "Resample"
    /\ RenderLength(originalBuffer) > 0
    /\ \E data \in [1..RenderLength(originalBuffer) -> RenderedSamples] :
          processedBuffer' = AudioBuffer(1, targetSampleRate, <<data>>)
    /\ pc' = AfterResample(options)
    /\ Record("Resample", originalBuffer)
    /\ UNCHANGED <<file, options, originalBuffer, result, error>>
    /\ UNCHANGED appVars
    /\ UNCHANGED restVars

\* lines 102-152
Trim ==
    /\ pc = "Trim"
    /\ processedBuffer' = RemoveSilence(processedBuffer)
    /\ pc' = AfterTrim(options)
    /\ Record("Trim", processedBuffer)
    /\ UNCHANGED <<file, options, originalBuffer, result, error>>
    /\ UNCHANGED appVars
    /\ UNCHANGED restVars

\* lines 155-163: channelData is changed in place; it is the decoded buffer's own
\* channel when neither resampling nor trimming replaced the buffer
Gate ==
    /\ pc = "Gate"
    /\ processedBuffer' =
          [processedBuffer EXCEPT !.channels[1] = NoiseGate(getChannelData0(processedBuffer))]
    /\ originalBuffer' = IF Ran("Resample") \/ Ran("Trim") THEN originalBuffer
                         ELSE processedBuffer'
    /\ pc' = AfterGate(options)
    /\ Record("Gate", processedBuffer)
    /\ UNCHANGED <<file, options, result, error>>
    /\ UNCHANGED appVars
    /\ UNCHANGED restVars

\* lines 166-181
NormalizeVolume ==
    /\ pc = "Normalize"
    /\ processedBuffer' = Normalize(processedBuffer)
    /\ pc' = "Encode"
    /\ Record("Normalize", processedBuffer)
    /\ UNCHANGED <<file, options, originalBuffer, result, error>>
    /\ UNCHANGED appVars
    /\ UNCHANGED restVars

\* lines 183-187
Encode ==
    /\ pc = "Encode"
    /\ result' = NewFile(audioBufferToWav(processedBuffer), newFileName(file.name))
    /\ pc' = "Done"
    /\ Record("Encode", processedBuffer)
    /\ UNCHANGED <<file, options, originalBuffer, processedBuffer, error>>
    /\ UNCHANGED appVars
    /\ UNCHANGED restVars

Next ==
    \/ Start
    \/ DecodeFail
    \/ DecodeOk
    \/ ResampleFail
    \/ Resample
    \/ Trim
    \/ Gate
    \/ NormalizeVolume
    \/ Encode

\* no scan of the trimmer is under way
NoScan ==
    /\ scanIndex = 0
    /\ scanInSound = FALSE
    /\ scanSoundStart = 0
    /\ scanIntervals = <<>>
    /\ writeOffset = 0
    /\ reads = <<>>

NoRun == [none |-> TRUE]
\* the first invocation of handleProcessFile, no other one suspended
FirstRun ==
    /\ run = 1
    /\ other = NoRun

NoDetails == [none |-> TRUE]
NoHtml == <<>>
\* App.tsx lines 86-102: no minutes, no saved session, nothing in progress
NoMinutes ==
    /\ mpc = "idle"
    /\ meetingMinutesHtml = NoHtml
    /\ savedSessions = <<>>
    /\ isGeneratingMinutes = FALSE
    /\ isEditingMinutes = FALSE
    /\ minutesError = NoError
    /\ editError = NoError
    /\ lastMeetingDetails = NoDetails
    /\ resultHtml = NoHtml

\* App.tsx lines 74-104: the component's state before any file is selected
NoBatch ==
    /\ hpc = "idle"
    /\ selectedFiles = <<>>
    /\ processingOptions = [convertToMono16kHz |-> TRUE, noiseReduction |-> TRUE,
                            normalizeVolume |-> TRUE, removeSilence |-> TRUE]
    /\ isLoading = FALSE
    /\ cancelRequestRef = FALSE
    /\ fileIndex = 0
    /\ fileToProcess = NoFile
    /\ allContent = <<>>
    /\ transcription = <<>>
    /\ uiError = NoError
    /\ calls = <<>>

Init ==
    /\ pc = "Idle"
    /\ file \in InputFiles
    /\ options \in ProcessingOptions
    /\ originalBuffer = NoBuffer
    /\ processedBuffer = NoBuffer
    /\ result = NoFile
    /\ error = NoError
    /\ history = <<>>
    /\ NoBatch
    /\ NoScan
    /\ FirstRun
    /\ NoMinutes

Spec == Init /\ [][Next]_vars

(***************************************************************************)
(* audioBufferToWav on its own: any buffer, one call.                      *)
(***************************************************************************)
AudioBufferToWavCall ==
    /\ pc = "Wav"
    /\ result' = audioBufferToWav(processedBuffer)
    /\ pc' = "WavDone"
    /\ UNCHANGED <<file, options, originalBuffer, processedBuffer, error, history>>
    /\ UNCHANGED appVars
    /\ UNCHANGED restVars

InitWav ==
    /\ pc = "Wav"
    /\ file = NoFile
    /\ options = [convertToMono16kHz |-> FALSE, noiseReduction |-> FALSE,
                  normalizeVolume |-> FALSE, removeSilence |-> FALSE]
    /\ originalBuffer = NoBuffer
    /\ \E t \in WavShapes, r \in WavRates :
          \E chans \in [1..t[1] -> [1..t[2] -> WavSampleValues]] :
             processedBuffer = AudioBuffer(t[1], r, chans)
    /\ result = NoFile
    /\ error = NoError
    /\ history = <<>>
    /\ NoBatch
    /\ NoScan
    /\ FirstRun
    /\ NoMinutes

NextWav == AudioBufferToWavCall

SpecWav == InitWav /\ [][NextWav]_vars

(***************************************************************************)
(* The trimmer on its own (lines 102-152), one iteration of the scan loop  *)
(* per step, on mono buffers at the target rate given as runs of equal     *)
(* samples: one loud sample, one sample exactly at the threshold, one      *)
(* silent sample, and silent runs one short of the minimum and exactly the *)
(* minimum long.                                                           *)
(***************************************************************************)
\* the samples of a run
RunSamples(kind) ==
    CASE kind = "loud" -> <<(<<1, 2>>)>>
      [] kind = "threshold" -> <<(<<-1, 100>>)>>
      [] kind = "silent" -> <<(<<-1, 200>>)>>
      [] kind = "almost" -> Zeros(minSilenceSamples(targetSampleRate) - 1)
      [] kind = "minimum" -> Zeros(minSilenceSamples(targetSampleRate))

\* a long silent run comes right after a loud sample only, which keeps the
\* scan's sample-by-sample stretches short
RunPatterns(n) ==
    {p \in [1..n ->
             {"loud", "threshold", "silent", "almost", "minimum"}] :
        \A k \in 1..n : p[k] \in {"almost", "minimum"} => (k > 1 /\ p[k - 1] = "loud")}

RECURSIVE Expand(_)
Expand(pattern) ==
    IF pattern = <<>> THEN <<>> ELSE RunSamples(Head(pattern)) \o Expand(Tail(pattern))

\* lines 114-129: one iteration of the for loop, its i++ included
ScanIteration ==
    /\ pc = "Scan"
    /\ LET channelData == getChannelData0(processedBuffer)
           minSilence == minSilenceSamples(processedBuffer.sampleRate)
           i == scanIndex
           read == [by |-> "scan", from |-> i, to |-> i]
       IN /\ i < Len(channelData)
          /\ IF ~scanInSound /\ IsLoud(channelData, i)
             THEN /\ scanInSound' = TRUE
                  /\ scanSoundStart' = i
                  /\ scanIndex' = i + 1
                  /\ reads' = Append(reads, read)
                  /\ UNCHANGED scanIntervals
             ELSE IF scanInSound /\ IsSilent(channelData, i)
             THEN LET silenceEnd == SilenceEnd(channelData, i)
                      cut == QualifiesForCut(silenceEnd, i, minSilence)
                      last == IF silenceEnd < Len(channelData)
                              THEN silenceEnd ELSE Len(channelData) - 1
                  IN /\ scanInSound' = IF cut THEN FALSE ELSE scanInSound
                     /\ scanIntervals' =
                            IF cut
                            THEN Append(scanIntervals, [start |-> scanSoundStart, end |-> i])
                            ELSE scanIntervals
                     /\ scanIndex' = NextIndex(silenceEnd, i) + 1
                     /\ reads' = reads \o <<read, [by |-> "lookAhead", from |-> i, to |-> last]>>
                     /\ UNCHANGED scanSoundStart
             ELSE /\ scanIndex' = i + 1
                  /\ reads' = Append(reads, read)
                  /\ UNCHANGED <<scanInSound, scanSoundStart, scanIntervals>>
    /\ UNCHANGED <<pc, file, options, originalBuffer, processedBuffer, result, error,
                   history, writeOffset>>
    /\ UNCHANGED <<appVars, runVars, minutesVars>>

\* lines 114, 130: the loop test fails; the interval still open is closed
ScanExit ==
    /\ pc = "Scan"
    /\ LET channelData == getChannelData0(processedBuffer)
       IN /\ ~(scanIndex < Len(channelData))
          /\ scanIntervals' =
                 IF scanInSound
                 THEN Append(scanIntervals, ClosingInterval(scanSoundStart, Len(channelData)))
                 ELSE scanIntervals
    /\ pc' = "Scanned"
    /\ UNCHANGED <<file, options, originalBuffer, processedBuffer, result, error, history,
                   scanIndex, scanInSound, scanSoundStart, writeOffset, reads>>
    /\ UNCHANGED <<appVars, runVars, minutesVars>>

\* lines 132-151: the new buffer is filled from the intervals, or the
\* one-sample buffer takes its place
Reconstruct ==
    /\ pc = "Scanned"
    /\ LET channelData == getChannelData0(processedBuffer)
           sampleRate == processedBuffer.sampleRate
           padding == paddingSamples(sampleRate)
       IN IF Len(scanIntervals) > 0
          THEN LET totalLength == TotalLength(scanIntervals, padding)
                   newBuffer == createBuffer(totalLength, sampleRate)
                   copied == CopyIntervals(getChannelData0(newBuffer), channelData,
                                           scanIntervals, padding, 0)
               IN /\ processedBuffer' = AudioBuffer(1, sampleRate, <<copied.data>>)
                  /\ writeOffset' = copied.offset
          ELSE /\ processedBuffer' = SilentFallback(sampleRate)
               /\ UNCHANGED writeOffset
    /\ pc' = "Trimmed"
    /\ history' = Append(history, [stage |-> "Trim", input |-> processedBuffer])
    /\ UNCHANGED <<file, options, originalBuffer, result, error,
                   scanIndex, scanInSound, scanSoundStart, scanIntervals, reads>>
    /\ UNCHANGED <<appVars, runVars, minutesVars>>

InitTrim ==
    /\ pc = "Scan"
    /\ file = NoFile
    /\ options = [convertToMono16kHz |-> FALSE, noiseReduction |-> FALSE,
                  normalizeVolume |-> FALSE, removeSilence |-> TRUE]
    /\ \E n \in 1..MaxRuns : \E pattern \in RunPatterns(n) :
          /\ originalBuffer = AudioBuffer(1, targetSampleRate, <<Expand(pattern)>>)
          /\ processedBuffer = originalBuffer
    /\ result = NoFile
    /\ error = NoError
    /\ history = <<>>
    /\ NoBatch
    /\ NoScan
    /\ FirstRun
    /\ NoMinutes

NextTrim ==
    \/ ScanIteration
    \/ ScanExit
    \/ Reconstruct

SpecTrim == InitTrim /\ [][NextTrim]_vars

(***************************************************************************)
(* handleProcessFile and handleCancel (App.tsx lines 150-169, 190-299).    *)
(* One invocation of the handler works through selectedFiles; between two  *)
(* of its awaits it runs without interruption, and handleCancel can run    *)
(* only while it is suspended at an await.                                 *)
(***************************************************************************)
paVars == <<pc, file, options, originalBuffer, processedBuffer, result, error, history>>

\* file.type.startsWith('text/'), file.type.startsWith('audio/') (lines 211, 222)
MajorType(type) ==
    CASE type \in {"text/plain"} -> "text"
      [] type \in {"audio/mpeg", "audio/wav"} -> "audio"
      [] OTHER -> "other"

\* the files a batch is made of: a text file, a file of another kind, and audio
\* files that decode to the target format (a quiet recording), to two channels,
\* to a buffer too short to resample, or not at all
BatchFiles ==
    { [name |-> <<"n", ".", "txt">>, type |-> "text/plain", bytes |-> [text |-> "notes"]],
      [name |-> <<"p", ".", "png">>, type |-> "image/png", bytes |-> [text |-> "pixels"]],
      [name |-> <<"a", ".", "m">>, type |-> "audio/mpeg",
       bytes |-> [decodesTo |-> AudioBuffer(1, targetSampleRate, <<<<(<<-1, 200>>)>>>>)]],
      [name |-> <<"s", ".", "m">>, type |-> "audio/mpeg",
       bytes |-> [decodesTo |-> AudioBuffer(2, targetSampleRate, <<<<(<<1, 2>>)>>, <<(<<1, 2>>)>>>>)]],
      [name |-> <<"r", ".", "m">>, type |-> "audio/mpeg",
       bytes |-> [decodesTo |-> AudioBuffer(1, 32000, <<<<(<<1, 2>>)>>>>)]],
      [name |-> <<"c", ".", "m">>, type |-> "audio/mpeg", bytes |-> [decodesTo |-> Corrupt]] }

Batches == UNION {[1..n -> BatchFiles] : n \in 1..MaxFiles}

\* the option records a batch is run with: nothing enabled, the defaults of
\* lines 79-84 (everything enabled), resampling alone, gate and normalizer alone
BatchOptions ==
    {o \in ProcessingOptions :
        \/ (o.removeSilence <=> o.noiseReduction) /\ (o.noiseReduction <=> o.normalizeVolume)
              /\ (o.removeSilence => o.convertToMono16kHz)
        \/ (~o.convertToMono16kHz /\ ~o.removeSilence /\ o.noiseReduction /\ o.normalizeVolume)}

\* line 224
isAnyOptionEnabled == needsProcessing(processingOptions)

\* the source line of the await at which the processAudio call is suspended,
\* 0 when it is not suspended: reading and decoding the bytes (lines 75, 77),
\* the resampling render (96), the gain render (179, inside `max > 0.001`)
AwaitedLineEveryStage ==
    IF pc \in {"Decoding", "Resample", "Trim", "Gate", "Normalize", "Encode"} THEN 77 ELSE 0

AwaitedLine ==
    CASE pc = "Decoding" -> 77
      [] pc = "Resample" /\ RenderLength(originalBuffer) > 0 -> 96
      [] pc = "Normalize" /\ NeedsGain(Peak(getChannelData0(processedBuffer))) -> 179
      [] OTHER -> 0

\* the handler is suspended at an await whose promise is still pending
Suspended ==
    \/ hpc \in {"textDelay", "textRead", "preDelay", "fallbackDelay", "transcribe", "recvDelay"}
    \/ (hpc = "processAudio" /\ AwaitedLine # 0)

\* a call whose promise is taken as settled at once
ProcessAudioNotAwaited == TRUE

\* line 233: `await processAudio(...)` resumes when the call has returned or thrown
ProcessAudioSettled == pc \in {"Done", "Failed"}

\* the calls made and the promises seen settled, in order: op is the function,
\* index the loop variable at that moment; arg tells which file went to
\* transcribeAudio (the original or the one processAudio returned), what
\* processAudio threw, where the call stood when the handler resumed
Called(op, arg) == [op |-> op, index |-> fileIndex, arg |-> arg]

\* `return` inside the try, then the finally of lines 296-298
Return ==
    /\ hpc' = "returned"
    /\ isLoading' = FALSE

\* transcribeAudio(fileToProcess, selectedModel) resolves with the text of that file
TranscriptOf(f) == [transcriptOf |-> f.name]

\* lines 190-203: the click on Process (the button is disabled for an empty
\* selection and while busy, line 546)
HandleProcessFile ==
    /\ hpc = "idle"
    /\ Len(selectedFiles) > 0
    /\ ~isLoading
    /\ isLoading' = TRUE
    /\ cancelRequestRef' = FALSE
    /\ transcription' = <<>>
    /\ uiError' = NoError
    /\ allContent' = <<>>
    /\ fileIndex' = 0
    /\ hpc' = "loop"
    /\ UNCHANGED <<selectedFiles, processingOptions, fileToProcess, calls>>
    /\ UNCHANGED paVars
    /\ UNCHANGED restVars

\* lines 202-230, 244-265, 280-288: the loop test and the body up to its first await
LoopHead ==
    /\ hpc = "loop"
    /\ IF fileIndex >= Len(selectedFiles)
       THEN /\ transcription' = allContent
            /\ Return
            /\ UNCHANGED <<fileIndex, fileToProcess, allContent, calls>>
       ELSE IF cancelRequestRef
       THEN /\ Return
            /\ UNCHANGED <<fileIndex, fileToProcess, allContent, transcription, calls>>
       ELSE LET f == selectedFiles[fileIndex + 1]
                major == MajorType(f.type)
            IN /\ hpc' = CASE major = "text" -> "textDelay"
                           [] major = "audio" /\ isAnyOptionEnabled -> "preDelay"
                           [] major = "audio" /\ ~isAnyOptionEnabled -> "transcribe"
                           [] OTHER -> "loop"
               /\ fileToProcess' = IF major = "audio" THEN f ELSE fileToProcess
               /\ calls' = IF major = "audio" /\ ~isAnyOptionEnabled
                           THEN Append(calls, Called("transcribeAudio", "original"))
                           ELSE calls
               /\ allContent' = IF major = "other"
                                THEN Append(allContent, [from |-> f.name, text |-> "skipped"])
                                ELSE allContent
               /\ fileIndex' = IF major = "other" THEN fileIndex + 1 ELSE fileIndex
               /\ UNCHANGED <<isLoading, transcription>>
    /\ UNCHANGED <<selectedFiles, processingOptions, cancelRequestRef, uiError>>
    /\ UNCHANGED paVars
    /\ UNCHANGED restVars

\* lines 213-216
TextDelayDone ==
    /\ hpc = "textDelay"
    /\ IF cancelRequestRef THEN Return ELSE (hpc' = "textRead" /\ UNCHANGED isLoading)
    /\ UNCHANGED <<selectedFiles, processingOptions, cancelRequestRef, fileIndex,
                   fileToProcess, allContent, transcription, uiError, calls>>
    /\ UNCHANGED paVars
    /\ UNCHANGED restVars

\* lines 216-220
TextReadDone ==
    /\ hpc = "textRead"
    /\ IF cancelRequestRef
       THEN Return /\ UNCHANGED <<fileIndex, allContent>>
       ELSE /\ allContent' = Append(allContent,
                                    [from |-> selectedFiles[fileIndex + 1].name,
                                     text |-> selectedFiles[fileIndex + 1].bytes.text])
            /\ fileIndex' = fileIndex + 1
            /\ hpc' = "loop"
            /\ UNCHANGED isLoading
    /\ UNCHANGED <<selectedFiles, processingOptions, cancelRequestRef,
                   fileToProcess, transcription, uiError, calls>>
    /\ UNCHANGED paVars
    /\ UNCHANGED restVars

\* lines 230-233: after the delay the call of processAudio(file, processingOptions)
PreDelayDone ==
    /\ hpc = "preDelay"
    /\ IF cancelRequestRef
       THEN Return /\ UNCHANGED paVars /\ UNCHANGED calls
       ELSE /\ hpc' = "processAudio"
            /\ pc' = "Idle"
            /\ file' = selectedFiles[fileIndex + 1]
            /\ options' = processingOptions
            /\ originalBuffer' = NoBuffer
            /\ processedBuffer' = NoBuffer
            /\ result' = NoFile
            /\ error' = NoError
            /\ history' = <<>>
            /\ calls' = Append(calls, Called("processAudio", selectedFiles[fileIndex + 1].name))
            /\ UNCHANGED isLoading
    /\ UNCHANGED <<selectedFiles, processingOptions, cancelRequestRef, fileIndex,
                   fileToProcess, allContent, transcription, uiError>>
    /\ UNCHANGED restVars

\* the call has returned or thrown and its locals are gone
CallOver ==
    /\ pc' = "NotCalled"
    /\ file' = NoFile
    /\ originalBuffer' = NoBuffer
    /\ processedBuffer' = NoBuffer
    /\ result' = NoFile
    /\ error' = NoError
    /\ history' = <<>>
    /\ UNCHANGED options

\* lines 233-234, 244-265: processAudio returned a file
ProcessAudioResolved ==
    /\ hpc = "processAudio"
    /\ ProcessAudioSettled
    /\ pc # "Failed"
    /\ fileToProcess' = result
    /\ IF cancelRequestRef
       THEN /\ Return
            /\ calls' = Append(calls, Called("processAudioResolved", pc))
       ELSE /\ hpc' = "transcribe"
            /\ calls' = calls \o <<Called("processAudioResolved", pc),
                                   Called("transcribeAudio", "processed")>>
            /\ UNCHANGED isLoading
    /\ CallOver
    /\ UNCHANGED <<selectedFiles, processingOptions, cancelRequestRef, fileIndex,
                   allContent, transcription, uiError>>
    /\ UNCHANGED restVars

\* a handler without the inner try: the failure ends the batch (lines 290-297)
ProcessAudioRejectedEndsBatch ==
    /\ hpc = "processAudio"
    /\ ProcessAudioSettled
    /\ pc = "Failed"
    /\ Return
    /\ uiError' = IF cancelRequestRef THEN uiError ELSE error
    /\ calls' = Append(calls, Called("processAudioRejected",
                                     [error |-> error, cancelled |-> cancelRequestRef]))
    /\ UNCHANGED <<selectedFiles, processingOptions, cancelRequestRef, fileIndex,
                   fileToProcess, allContent, transcription>>
    /\ CallOver
    /\ UNCHANGED restVars

\* lines 235-239: processAudio threw
ProcessAudioRejected ==
    /\ hpc = "processAudio"
    /\ ProcessAudioSettled
    /\ pc = "Failed"
    /\ IF cancelRequestRef THEN Return ELSE (hpc' = "fallbackDelay" /\ UNCHANGED isLoading)
    /\ calls' = Append(calls, Called("processAudioRejected",
                                     [error |-> error, cancelled |-> cancelRequestRef]))
    /\ UNCHANGED <<selectedFiles, processingOptions, cancelRequestRef, fileIndex,
                   fileToProcess, allContent, transcription, uiError>>
    /\ CallOver
    /\ UNCHANGED restVars

\* lines 239-265: after the delay the original file goes to transcription; the
\* cancel flag is not read here
FallbackDelayDone ==
    /\ hpc = "fallbackDelay"
    /\ fileToProcess' = selectedFiles[fileIndex + 1]
    /\ hpc' = "transcribe"
    /\ calls' = Append(calls, Called("transcribeAudio", "original"))
    /\ UNCHANGED <<selectedFiles, processingOptions, isLoading, cancelRequestRef, fileIndex,
                   allContent, transcription, uiError>>
    /\ UNCHANGED paVars
    /\ UNCHANGED restVars

\* lines 265-271: transcribeAudio resolved
TranscribeResolved ==
    /\ hpc = "transcribe"
    /\ IF cancelRequestRef THEN Return ELSE (hpc' = "recvDelay" /\ UNCHANGED isLoading)
    /\ calls' = Append(calls, Called("transcribeAudioResolved", "text"))
    /\ UNCHANGED <<selectedFiles, processingOptions, cancelRequestRef, fileIndex,
                   fileToProcess, allContent, transcription, uiError>>
    /\ UNCHANGED paVars
    /\ UNCHANGED restVars

\* a handler that shows the blocks gathered so far when a transcription fails
TranscribeRejectedKeepsBlocks ==
    /\ hpc = "transcribe"
    /\ Return
    /\ transcription' = allContent
    /\ uiError' = IF cancelRequestRef THEN uiError ELSE "transcription failed"
    /\ calls' = Append(calls, Called("transcribeAudioRejected", "transcription failed"))
    /\ UNCHANGED <<selectedFiles, processingOptions, cancelRequestRef, fileIndex,
                   fileToProcess, allContent>>
    /\ UNCHANGED paVars
    /\ UNCHANGED restVars

\* lines 276-278, 290-298: transcribeAudio threw; the outer catch ends the batch
TranscribeRejected ==
    /\ hpc = "transcribe"
    /\ Return
    /\ uiError' = IF cancelRequestRef THEN uiError ELSE "transcription failed"
    /\ calls' = Append(calls, Called("transcribeAudioRejected", "transcription failed"))
    /\ UNCHANGED <<selectedFiles, processingOptions, cancelRequestRef, fileIndex,
                   fileToProcess, allContent, transcription>>
    /\ UNCHANGED paVars
    /\ UNCHANGED restVars

\* lines 271-275 and the loop's i++
RecvDelayDone ==
    /\ hpc = "recvDelay"
    /\ IF cancelRequestRef
       THEN Return /\ UNCHANGED <<fileIndex, allContent>>
       ELSE /\ allContent' = Append(allContent,
                                    [from |-> selectedFiles[fileIndex + 1].name,
                                     text |-> TranscriptOf(fileToProcess)])
            /\ fileIndex' = fileIndex + 1
            /\ hpc' = "loop"
            /\ UNCHANGED isLoading
    /\ UNCHANGED <<selectedFiles, processingOptions, cancelRequestRef,
                   fileToProcess, transcription, uiError, calls>>
    /\ UNCHANGED paVars
    /\ UNCHANGED restVars

\* lines 150-156: the click on Cancel (the button is shown while isLoading,
\* line 579); it runs only when no other code is running
HandleCancel ==
    /\ isLoading
    /\ Suspended
    /\ cancelRequestRef' = TRUE
    /\ isLoading' = FALSE
    /\ calls' = Append(calls, Called("handleCancel", [hpc |-> hpc, pc |-> pc]))
    /\ UNCHANGED <<hpc, selectedFiles, processingOptions, fileIndex, fileToProcess,
                   allContent, transcription, uiError>>
    /\ UNCHANGED paVars
    /\ UNCHANGED restVars

InitApp ==
    /\ pc = "NotCalled"
    /\ file = NoFile
    /\ options = [convertToMono16kHz |-> FALSE, noiseReduction |-> FALSE,
                  normalizeVolume |-> FALSE, removeSilence |-> FALSE]
    /\ originalBuffer = NoBuffer
    /\ processedBuffer = NoBuffer
    /\ result = NoFile
    /\ error = NoError
    /\ history = <<>>
    /\ hpc = "idle"
    /\ selectedFiles \in Batches
    /\ processingOptions \in BatchOptions
    /\ isLoading = FALSE
    /\ cancelRequestRef = FALSE
    /\ fileIndex = 0
    /\ fileToProcess = NoFile
    /\ allContent = <<>>
    /\ transcription = <<>>
    /\ uiError = NoError
    /\ calls = <<>>
    /\ NoScan
    /\ FirstRun
    /\ NoMinutes

NextApp ==
    \/ HandleProcessFile
    \/ LoopHead
    \/ TextDelayDone
    \/ TextReadDone
    \/ PreDelayDone
    \/ ProcessAudioResolved
    \/ ProcessAudioRejected
    \/ FallbackDelayDone
    \/ TranscribeResolved
    \/ TranscribeRejected
    \/ RecvDelayDone
    \/ HandleCancel
    \/ Next

SpecApp == InitApp /\ [][NextApp]_vars

(***************************************************************************)
(* Two invocations of handleProcessFile.  The Process button is enabled    *)
(* again as soon as isLoading is false (line 546), which handleCancel      *)
(* makes it while the cancelled invocation is still suspended at its       *)
(* await; both invocations share the state and cancelRequestRef.           *)
(***************************************************************************)
\* the locals of the invocation at work, and of the processAudio call it awaits
RunLocals ==
    [hpc |-> hpc, fileIndex |-> fileIndex, fileToProcess |-> fileToProcess,
     allContent |-> allContent, pc |-> pc, file |-> file, options |-> options,
     originalBuffer |-> originalBuffer, processedBuffer |-> processedBuffer,
     result |-> result, error |-> error, history |-> history]

\* no code is running: the invocation at work waits at an await or is over
AtRest == Suspended \/ hpc = "returned"

\* lines 190-203: a click on Process while an earlier invocation is suspended
\* or over; the new invocation gets locals of its own
HandleProcessFileAgain ==
    /\ hpc # "idle"
    /\ AtRest
    /\ other = NoRun
    /\ Len(selectedFiles) > 0
    /\ ~isLoading
    /\ other' = RunLocals
    /\ run' = run + 1
    /\ isLoading' = TRUE
    /\ cancelRequestRef' = FALSE
    /\ transcription' = <<>>
    /\ uiError' = NoError
    /\ allContent' = <<>>
    /\ fileIndex' = 0
    /\ fileToProcess' = NoFile
    /\ hpc' = "loop"
    /\ calls' = Append(calls, [op |-> "handleProcessFile", index |-> 0, arg |-> run + 1])
    /\ CallOver
    /\ UNCHANGED <<selectedFiles, processingOptions>>
    /\ UNCHANGED <<scanVars, minutesVars>>

\* the promise the other invocation awaits settles: the event loop takes that
\* invocation up, the one at work stays suspended
ResumeOther ==
    /\ AtRest
    /\ other # NoRun
    /\ other.hpc # "returned"
    /\ other' = RunLocals
    /\ run' = 3 - run
    /\ hpc' = other.hpc
    /\ fileIndex' = other.fileIndex
    /\ fileToProcess' = other.fileToProcess
    /\ allContent' = other.allContent
    /\ pc' = other.pc
    /\ file' = other.file
    /\ options' = other.options
    /\ originalBuffer' = other.originalBuffer
    /\ processedBuffer' = other.processedBuffer
    /\ result' = other.result
    /\ error' = other.error
    /\ history' = other.history
    /\ UNCHANGED <<selectedFiles, processingOptions, isLoading, cancelRequestRef,
                   transcription, uiError, calls>>
    /\ UNCHANGED <<scanVars, minutesVars>>

\* most files of a batch that is run twice
MaxOverlapFiles == 1

InitAppTwice ==
    /\ InitApp
    /\ Len(selectedFiles) <= MaxOverlapFiles

NextAppTwice ==
    \/ NextApp
    \/ HandleProcessFileAgain
    \/ ResumeOther

SpecAppTwice == InitAppTwice /\ [][NextAppTwice]_vars

(***************************************************************************)
(* handleGenerateMinutes and handleRequestEdits with handleCancel          *)
(* (App.tsx lines 150-169, 337-472).  One request at a time: the next one  *)
(* starts when the one before it has run to its end.                       *)
(***************************************************************************)
\* most sessions in the saved history
MaxSessions == 2

\* the form's details; topic "" is a form without a topic
MeetingDetails == {[topic |-> "budget"], [topic |-> ""]}
GenerationCancelled == "Minute generation cancelled by user."
EditCancelled == "Edit request cancelled by user."
ServiceFailed == "service failed"

\* what generateMeetingMinutes and regenerateMeetingMinutes resolve with: the
\* minutes of the details, with or without a topic line in the HTML
GeneratedHtml(details) ==
    {[minutesOf |-> details, topicLine |-> t, edits |-> <<>>] : t \in {"", "planning"}}
RegeneratedHtml(html, editText) ==
    {[html EXCEPT !.edits = Append(@, editText), !.topicLine = t] : t \in {"", "planning"}}

\* lines 19-60: the topic found in the HTML, "" for null
extractTopicFromHtml(htmlContent) == htmlContent.topicLine

\* lines 383-384, 450-451: extractedTopic || details.topic || the default
sessionTopic(html, details) ==
    IF extractTopicFromHtml(html) # "" THEN extractTopicFromHtml(html)
    ELSE IF details.topic # "" THEN details.topic
    ELSE "untitled"

\* lines 386-393, 453-460
newSession(html, details, edited) ==
    [name |-> [topic |-> sessionTopic(html, details), edited |-> edited],
     transcription |-> transcription,
     meetingMinutesHtml |-> html,
     meetingDetails |-> details]

MinutesSuspended == mpc \in {"generate", "generateDelay", "edit", "editDelay"}

\* lines 337-372: the form of step 5 is submitted; it is shown only with a
\* transcription (line 596), so the test of line 338 fails
HandleGenerateMinutes ==
    /\ mpc = "idle"
    /\ ~isLoading /\ ~isGeneratingMinutes /\ ~isEditingMinutes
    /\ transcription # <<>>
    /\ Len(savedSessions) < MaxSessions
    /\ \E details \in MeetingDetails : lastMeetingDetails' = details
    /\ isGeneratingMinutes' = TRUE
    /\ cancelRequestRef' = FALSE
    /\ meetingMinutesHtml' = NoHtml
    /\ minutesError' = NoError
    /\ editError' = NoError
    /\ mpc' = "generate"
    /\ UNCHANGED <<savedSessions, isEditingMinutes, resultHtml>>
    /\ UNCHANGED <<hpc, selectedFiles, processingOptions, isLoading, fileIndex,
                   fileToProcess, allContent, transcription, uiError, calls>>
    /\ UNCHANGED <<paVars, scanVars, runVars>>

\* lines 372-378: generateMeetingMinutes resolves
GenerateResolved ==
    /\ mpc = "generate"
    /\ \E html \in GeneratedHtml(lastMeetingDetails) :
          IF cancelRequestRef
          THEN /\ isGeneratingMinutes' = FALSE
               /\ mpc' = "idle"
               /\ UNCHANGED resultHtml
          ELSE /\ resultHtml' = html
               /\ mpc' = "generateDelay"
               /\ UNCHANGED isGeneratingMinutes
    /\ UNCHANGED <<meetingMinutesHtml, savedSessions, isEditingMinutes, minutesError,
                   editError, lastMeetingDetails>>
    /\ UNCHANGED <<appVars, paVars, scanVars, runVars>>

\* lines 396-403: generateMeetingMinutes rejects
GenerateRejected ==
    /\ mpc = "generate"
    /\ minutesError' = IF cancelRequestRef THEN minutesError ELSE ServiceFailed
    /\ isGeneratingMinutes' = FALSE
    /\ mpc' = "idle"
    /\ UNCHANGED <<meetingMinutesHtml, savedSessions, isEditingMinutes, editError,
                   lastMeetingDetails, resultHtml>>
    /\ UNCHANGED <<appVars, paVars, scanVars, runVars>>

\* lines 378-394, 401-403: the 800 ms are over; the cancel flag is not read
GenerateDelayDone ==
    /\ mpc = "generateDelay"
    /\ meetingMinutesHtml' = resultHtml
    /\ savedSessions' = <<newSession(resultHtml, lastMeetingDetails, FALSE)>> \o savedSessions
    /\ isGeneratingMinutes' = FALSE
    /\ resultHtml' = NoHtml
    /\ mpc' = "idle"
    /\ UNCHANGED <<isEditingMinutes, minutesError, editError, lastMeetingDetails>>
    /\ UNCHANGED <<appVars, paVars, scanVars, runVars>>

\* lines 407-439: the edit request of step 7 is submitted; its form is shown
\* only with a transcription and minutes (lines 596, 649), which come with
\* their details, so the test of line 408 fails
HandleRequestEdits ==
    /\ mpc = "idle"
    /\ ~isLoading /\ ~isGeneratingMinutes /\ ~isEditingMinutes
    /\ transcription # <<>>
    /\ meetingMinutesHtml # NoHtml
    /\ lastMeetingDetails # NoDetails
    /\ Len(savedSessions) < MaxSessions
    /\ isEditingMinutes' = TRUE
    /\ cancelRequestRef' = FALSE
    /\ editError' = NoError
    /\ mpc' = "edit"
    /\ UNCHANGED <<meetingMinutesHtml, savedSessions, isGeneratingMinutes, minutesError,
                   lastMeetingDetails, resultHtml>>
    /\ UNCHANGED <<hpc, selectedFiles, processingOptions, isLoading, fileIndex,
                   fileToProcess, allContent, transcription, uiError, calls>>
    /\ UNCHANGED <<paVars, scanVars, runVars>>

\* lines 439-445: regenerateMeetingMinutes resolves
EditResolved ==
    /\ mpc = "edit"
    /\ \E editText \in {"shorter"} : \E html \in RegeneratedHtml(meetingMinutesHtml, editText) :
          IF cancelRequestRef
          THEN /\ isEditingMinutes' = FALSE
               /\ mpc' = "idle"
               /\ UNCHANGED resultHtml
          ELSE /\ resultHtml' = html
               /\ mpc' = "editDelay"
               /\ UNCHANGED isEditingMinutes
    /\ UNCHANGED <<meetingMinutesHtml, savedSessions, isGeneratingMinutes, minutesError,
                   editError, lastMeetingDetails>>
    /\ UNCHANGED <<appVars, paVars, scanVars, runVars>>

\* lines 463-470: regenerateMeetingMinutes rejects
EditRejected ==
    /\ mpc = "edit"
    /\ editError' = IF cancelRequestRef THEN editError ELSE ServiceFailed
    /\ isEditingMinutes' = FALSE
    /\ mpc' = "idle"
    /\ UNCHANGED <<meetingMinutesHtml, savedSessions, isGeneratingMinutes, minutesError,
                   lastMeetingDetails, resultHtml>>
    /\ UNCHANGED <<appVars, paVars, scanVars, runVars>>

\* lines 445-461, 468-470: the 800 ms are over; the cancel flag is not read
EditDelayDone ==
    /\ mpc = "editDelay"
    /\ meetingMinutesHtml' = resultHtml
    /\ savedSessions' = <<newSession(resultHtml, lastMeetingDetails, TRUE)>> \o savedSessions
    /\ isEditingMinutes' = FALSE
    /\ resultHtml' = NoHtml
    /\ mpc' = "idle"
    /\ UNCHANGED <<isGeneratingMinutes, minutesError, editError, lastMeetingDetails>>
    /\ UNCHANGED <<appVars, paVars, scanVars, runVars>>

\* lines 150-164: the click on Cancel of step 5 or step 7 (lines 629, 662),
\* shown while the request is in progress
HandleCancelMinutes ==
    /\ isGeneratingMinutes \/ isEditingMinutes
    /\ MinutesSuspended
    /\ cancelRequestRef' = TRUE
    /\ isGeneratingMinutes' = FALSE
    /\ minutesError' = IF isGeneratingMinutes THEN GenerationCancelled ELSE minutesError
    /\ isEditingMinutes' = FALSE
    /\ editError' = IF isEditingMinutes THEN EditCancelled ELSE editError
    /\ UNCHANGED <<mpc, meetingMinutesHtml, savedSessions, lastMeetingDetails, resultHtml>>
    /\ UNCHANGED <<hpc, selectedFiles, processingOptions, isLoading, fileIndex,
                   fileToProcess, allContent, transcription, uiError, calls>>
    /\ UNCHANGED <<paVars, scanVars, runVars>>

\* lines 145-148: a transcription arrives from the live tab
HandleLiveTranscriptionComplete ==
    /\ mpc = "idle"
    /\ ~isLoading /\ ~isGeneratingMinutes /\ ~isEditingMinutes
    /\ \E text \in {"spoken", "dictated"} :
          /\ transcription # <<[from |-> <<"live">>, text |-> text]>>
          /\ transcription' = <<[from |-> <<"live">>, text |-> text]>>
    /\ uiError' = NoError
    /\ meetingMinutesHtml' = NoHtml
    /\ minutesError' = NoError
    /\ lastMeetingDetails' = NoDetails
    /\ editError' = NoError
    /\ UNCHANGED <<mpc, savedSessions, isGeneratingMinutes, isEditingMinutes, resultHtml>>
    /\ UNCHANGED <<hpc, selectedFiles, processingOptions, isLoading, cancelRequestRef,
                   fileIndex, fileToProcess, allContent, calls>>
    /\ UNCHANGED <<paVars, scanVars, runVars>>

\* the component as mounted: no file, no transcription, no minutes
InitMinutes ==
    /\ pc = "NotCalled"
    /\ file = NoFile
    /\ options = [convertToMono16kHz |-> FALSE, noiseReduction |-> FALSE,
                  normalizeVolume |-> FALSE, removeSilence |-> FALSE]
    /\ originalBuffer = NoBuffer
    /\ processedBuffer = NoBuffer
    /\ result = NoFile
    /\ error = NoError
    /\ history = <<>>
    /\ NoBatch
    /\ NoScan
    /\ FirstRun
    /\ NoMinutes

NextMinutes ==
    \/ HandleLiveTranscriptionComplete
    \/ HandleGenerateMinutes
    \/ GenerateResolved
    \/ GenerateRejected
    \/ GenerateDelayDone
    \/ HandleRequestEdits
    \/ EditResolved
    \/ EditRejected
    \/ EditDelayDone
    \/ HandleCancelMinutes

SpecMinutes == InitMinutes /\ [][NextMinutes]_vars

(***************************************************************************)
(* Properties.                                                             *)
(***************************************************************************)
Finished == pc \in {"Done", "Failed"}
ProducedWav == pc = "Done" /\ needsProcessing(options)

\* some sample of the channel is below the silence threshold
HasSilentSample(channelData) == \E i \in 0..(Len(channelData) - 1) : IsSilent(channelData, i)
\* no sample of the channel is above the silence threshold
NoLoudSample(channelData) == \A i \in 0..(Len(channelData) - 1) : ~IsLoud(channelData, i)
\* index of the first sample above the silence threshold
FirstLoud(channelData) ==
    CHOOSE i \in 0..(Len(channelData) - 1) :
        IsLoud(channelData, i) /\ \A j \in 0..(i - 1) : ~IsLoud(channelData, j)
\* every run of below-threshold samples is shorter than the minimum silence length
NoQualifyingRun(channelData, sampleRate) ==
    LET min == minSilenceSamples(sampleRate)
    IN \A i \in 0..(Len(channelData) - min) :
          \E j \in i..(i + min - 1) : ~IsSilent(channelData, j)

\* C1: with all four flags false, every call ends by returning the input file
\* itself and raises no error, also for a file the decoder rejects.
C1_IdentityLaw ==
    (Finished /\ ~needsProcessing(options))
        => (pc = "Done" /\ result = file /\ error = NoError)

\* C2: every stored 16-bit value is the truncation of the clamped sample times
\* 32768 when the clamped sample is negative and times 32767 otherwise.
C2_NegativeScaledBy32768 ==
    pc = "WavDone" =>
        \A ch \in 1..processedBuffer.numberOfChannels : \A i \in 1..processedBuffer.length :
            LET sample == Clamp(processedBuffer.channels[ch][i])
                at == 44 + 2 * ((i - 1) * processedBuffer.numberOfChannels + (ch - 1))
            IN getInt16(result.bytes, at) =
                  IF sample[1] < 0 THEN TruncToInt32(sample[1], 32768, sample[2])
                  ELSE TruncToInt32(sample[1], 32767, sample[2])

\* C3: for c channels, n samples per channel and rate r the container has
\* 44 + 2*c*n bytes, RIFF size total-8, data size total-44 = 2*c*n, channel
\* count c, sample rate r, byte rate r*2*c, block align 2*c, 16 bits per sample.
C3_HeaderConsistent ==
    pc = "WavDone" =>
        LET bytes == result.bytes
            c == processedBuffer.numberOfChannels
            n == processedBuffer.length
            r == processedBuffer.sampleRate
        IN /\ Len(bytes) = 44 + 2 * c * n
           /\ getUint32(bytes, 4) = Len(bytes) - 8
           /\ getUint32(bytes, 40) = Len(bytes) - 44
           /\ getUint32(bytes, 40) = 2 * c * n
           /\ getUint16(bytes, 22) = c
           /\ getUint32(bytes, 24) = r
           /\ getUint32(bytes, 28) = r * 2 * c
           /\ getUint16(bytes, 32) = 2 * c
           /\ getUint16(bytes, 34) = 16

C3_Witness ==
    /\ pc = "WavDone"
    /\ processedBuffer.numberOfChannels = 2
    /\ processedBuffer.length = 2
    /\ processedBuffer.sampleRate = 44100
    /\ Len(result.bytes) = 52

\* C4: every container processAudio produces declares 1 channel, 16000 Hz and
\* 16 bits per sample, and holds (byte length - 44) / 2 samples.
C4_ProducedContainerFormat ==
    ProducedWav =>
        LET bytes == result.bytes
        IN /\ getUint16(bytes, 22) = 1
           /\ getUint32(bytes, 24) = 16000
           /\ getUint16(bytes, 34) = 16
           /\ Len(bytes) - 44 = 2 * processedBuffer.length
           /\ getUint32(bytes, 40) = Len(bytes) - 44

C4_Witness ==
    /\ ProducedWav
    /\ originalBuffer.numberOfChannels = 2
    /\ originalBuffer.sampleRate = targetSampleRate
    /\ Ran("Resample")
    /\ Len(result.bytes) = 46

\* C5: when the normalizer receives a buffer whose peak exceeds the floor 0.001,
\* the buffer it hands on has peak 0.95, every sample being the input sample
\* times 0.95 / peak; length and sample rate are unchanged.
C5_NormalizerPeak ==
    LastStage = "Normalize" =>
        LET in == InputOf("Normalize")
            out == OutputOf("Normalize")
            max == Peak(getChannelData0(in))
        IN RLt(normalizeFloor, max) =>
              /\ Peak(getChannelData0(out)) = targetPeak
              /\ out.length = in.length
              /\ out.sampleRate = in.sampleRate
              /\ \A i \in 1..in.length :
                    getChannelData0(out)[i]
                        = RMul(getChannelData0(in)[i], RDiv(targetPeak, max))

C5_Witness ==
    /\ pc = "Done"
    /\ Ran("Normalize")
    /\ Peak(getChannelData0(InputOf("Normalize"))) = <<1, 2>>
    /\ Peak(getChannelData0(processedBuffer)) = targetPeak
    /\ InputOf("Normalize").length > 1

\* C6: when the normalizer receives a buffer whose peak does not exceed the
\* floor 0.001, the buffer it hands on is that buffer, unchanged.
C6_NormalizerFrame ==
    LastStage = "Normalize" =>
        (RLe(Peak(getChannelData0(InputOf("Normalize"))), normalizeFloor)
            => OutputOf("Normalize") = InputOf("Normalize"))

C6_Witness ==
    /\ pc = "Done"
    /\ Ran("Normalize")
    /\ Peak(getChannelData0(InputOf("Normalize"))) = normalizeFloor
    /\ processedBuffer = InputOf("Normalize")

\* C7: whenever the trimmer's input has a sample below the threshold, the
\* trimmer's output has no more samples than its input.
C7_NeverLengthens ==
    Ran("Trim") =>
        (HasSilentSample(getChannelData0(InputOf("Trim")))
            => OutputOf("Trim").length <= InputOf("Trim").length)

\* C7, amended: whenever the trimmer's input has a sample below the threshold,
\* the output has at most the input's samples plus twice the padding for each
\* sound interval found.
C7_LengthWithinPadding ==
    Ran("Trim") =>
        LET in == InputOf("Trim")
        IN HasSilentSample(getChannelData0(in))
              => OutputOf("Trim").length
                    <= in.length + 2 * paddingSamples(in.sampleRate)
                                     * Len(SoundIntervals(getChannelData0(in), in.sampleRate))

C7_Witness ==
    /\ Ran("Trim")
    /\ HasSilentSample(getChannelData0(InputOf("Trim")))
    /\ OutputOf("Trim").length > InputOf("Trim").length

\* C8: the trimmer's output always has at least 1 sample; when no sample of the
\* input opens a sound interval the output is exactly one zero sample, the run
\* does not fail and the encoded container has 46 bytes.
C8_TrimmerNeverEmpty ==
    Ran("Trim") =>
        /\ OutputOf("Trim").length >= 1
        /\ NoLoudSample(getChannelData0(InputOf("Trim")))
              => /\ OutputOf("Trim") = AudioBuffer(1, InputOf("Trim").sampleRate, <<<<Zero>>>>)
                 /\ pc # "Failed"
                 /\ pc = "Done" => Len(result.bytes) = 46

C8_Witness ==
    /\ pc = "Done"
    /\ Ran("Trim")
    /\ InputOf("Trim").length = 2
    /\ NoLoudSample(getChannelData0(InputOf("Trim")))
    /\ getChannelData0(InputOf("Trim"))[1] # Zero
    /\ Len(result.bytes) = 46

\* C9: when every run of below-threshold samples of the trimmer's input is
\* shorter than the minimum silence length, the output is not shorter than the
\* input and holds the input's samples, all of them, in order.
C9_NoQualifyingRunUnchanged ==
    LastStage = "Trim" =>
        LET in == InputOf("Trim")
            out == OutputOf("Trim")
        IN NoQualifyingRun(getChannelData0(in), in.sampleRate)
              => /\ out.length >= in.length
                 /\ \E at \in 0..(out.length - in.length) :
                       \A i \in 1..in.length :
                          getChannelData0(out)[at + i] = getChannelData0(in)[i]

\* C9, amended: when every run of below-threshold samples of the trimmer's
\* input is shorter than the minimum silence length, the output is the padding
\* of zeros, the input from its first sample above the threshold to its end,
\* unchanged and in order, and the padding of zeros again; the samples before
\* that first sample are dropped, and with no sample above the threshold the
\* output is one zero sample.
C9_KeepsFromFirstLoudSample ==
    LastStage = "Trim" =>
        LET in == InputOf("Trim")
            out == OutputOf("Trim")
            data == getChannelData0(in)
            padding == paddingSamples(in.sampleRate)
        IN NoQualifyingRun(data, in.sampleRate)
              => IF NoLoudSample(data)
                 THEN getChannelData0(out) = <<Zero>>
                 ELSE LET first == FirstLoud(data)
                          kept == in.length - first
                      IN /\ out.length = padding + kept + padding
                         /\ \A k \in 1..out.length :
                               getChannelData0(out)[k] =
                                  IF k <= padding \/ k > padding + kept THEN Zero
                                  ELSE data[first + (k - padding)]

C9_Witness ==
    /\ Ran("Trim")
    /\ getChannelData0(InputOf("Trim")) = <<(<<-1, 200>>), (<<1, 2>>)>>
    /\ OutputOf("Trim").length = 2 * paddingSamples(targetSampleRate) + 1

\* C10: the gate keeps the length; no output sample is larger in absolute value
\* than the input sample; a sample below the noise threshold 0.02 is multiplied
\* by 0.2 (and stays non-zero if it was); a sample at or above it is unchanged.
C10_GateNeverAmplifies ==
    LastStage = "Gate" =>
        LET in == getChannelData0(InputOf("Gate"))
            out == getChannelData0(OutputOf("Gate"))
        IN /\ Len(out) = Len(in)
           /\ \A i \in 1..Len(in) :
                 /\ RLe(RAbs(out[i]), RAbs(in[i]))
                 /\ IF RLt(RAbs(in[i]), noiseThreshold)
                    THEN /\ out[i] = RMul(in[i], reductionAmount)
                         /\ in[i] # Zero => out[i] # Zero
                    ELSE out[i] = in[i]

C10_Witness ==
    /\ Ran("Gate")
    /\ getChannelData0(InputOf("Gate")) = <<(<<-1, 200>>), noiseThreshold>>
    /\ getChannelData0(OutputOf("Gate")) = <<(<<-1, 1000>>), noiseThreshold>>

(***************************************************************************)
(* The orchestrator: stage order, failures, outcomes, naming, resampling.  *)
(***************************************************************************)
StageOrder == <<"Decode", "Resample", "Trim", "Gate", "Normalize", "Encode">>
StageRank(stage) == CHOOSE k \in 1..Len(StageOrder) : StageOrder[k] = stage
\* the smallest integer not below n / d (n >= 0, d > 0)
Ceil(n, d) == (n + d - 1) \div d
\* the container's two size fields agree with the bytes that follow them
SizesMatchPayload(bytes) ==
    /\ Len(bytes) >= 44
    /\ getUint32(bytes, 4) = Len(bytes) - 8
    /\ getUint32(bytes, 40) = Len(bytes) - 44

\* C11: the stages of a run execute in the order Decode, Resample, Trim, Gate,
\* Normalize, Encode, each at most once; Trim only with remove-silence, Gate only
\* with noise-reduction, Normalize only with normalize-volume; the normalizer's
\* input is the waveform as Trim and Gate left it and its gain is 0.95 over the
\* peak of that waveform.
C11_StageOrdering ==
    /\ \A a, b \in 1..Len(history) :
          a < b => StageRank(history[a].stage) < StageRank(history[b].stage)
    /\ history # <<>> => history[1].stage = "Decode"
    /\ Ran("Trim") => options.removeSilence
    /\ Ran("Gate") => options.noiseReduction
    /\ Ran("Normalize") => options.normalizeVolume
    /\ LastStage = "Normalize" =>
          LET in == InputOf("Normalize")
              data == getChannelData0(in)
              out == getChannelData0(OutputOf("Normalize"))
              max == Peak(data)
          IN /\ Ran("Gate") => data = NoiseGate(getChannelData0(InputOf("Gate")))
             /\ (Ran("Gate") /\ Ran("Trim")) => InputOf("Gate") = RemoveSilence(InputOf("Trim"))
             /\ (~Ran("Gate") /\ Ran("Trim")) => in = RemoveSilence(InputOf("Trim"))
             /\ RLt(normalizeFloor, max) =>
                   \A k \in 1..Len(data) : RMul(out[k], max) = RMul(targetPeak, data[k])

C11_Witness ==
    /\ pc = "Done"
    /\ StagesRun = StageOrder
    /\ Peak(getChannelData0(InputOf("Normalize"))) = <<1, 2>>

\* C12: when decoding fails the call ends with the decode error, which no other
\* failure carries; it has run no stage after the one decode and returns no file.
C12_DecodeFailure ==
    /\ (Finished /\ file.bytes.decodesTo = Corrupt) =>
          /\ pc = "Failed"
          /\ error = DecodeErrorMessage
          /\ StagesRun = <<"Decode">>
          /\ result = NoFile
    /\ (pc = "Failed" /\ error = DecodeErrorMessage) =>
          (file.bytes.decodesTo = Corrupt /\ LastStage = "Decode")
    /\ (pc = "Failed" /\ LastStage # "Decode") => error # DecodeErrorMessage

C12_Witness ==
    /\ pc = "Failed"
    /\ error = DecodeErrorMessage
    /\ options.removeSilence /\ options.normalizeVolume
    /\ StagesRun = <<"Decode">>

\* C13: a call ends in exactly one of three ways: the original file (all flags
\* false), a complete container whose size fields match its payload, or an
\* error; before it ends there is neither file nor error, with an error there
\* is no file, and nothing runs after the end.
C13_NoPartialOutput ==
    /\ ~Finished => (result = NoFile /\ error = NoError)
    /\ (pc = "Done" /\ ~needsProcessing(options)) => (result = file /\ error = NoError)
    /\ (pc = "Done" /\ needsProcessing(options)) =>
          /\ error = NoError
          /\ result.type = "audio/wav"
          /\ SizesMatchPayload(result.bytes)
          /\ Len(result.bytes) = 44 + 2 * processedBuffer.length
          /\ LastStage = "Encode"
    /\ pc = "Failed" => (result = NoFile /\ error # NoError /\ LastStage # "Encode")
    /\ Finished => ~ENABLED Next

C13_Witness ==
    /\ pc = "Done"
    /\ Ran("Trim")
    /\ Len(result.bytes) = 44 + 2 * (2 * paddingSamples(targetSampleRate) + 2)

\* C14: the produced file is named <stem>_processed.wav, the stem being the
\* input name before its last '.', or the whole name when it has no '.' or
\* nothing before it; its type is audio/wav.
C14_OutputNaming ==
    ProducedWav =>
        LET name == file.name
            dots == {k \in 1..Len(name) : name[k] = "."}
            stem == IF \E k \in dots : k > 1 /\ \A j \in dots : j <= k
                    THEN [k \in 1..(CHOOSE d \in dots : \A j \in dots : j <= d) - 1 |-> name[k]]
                    ELSE name
        IN /\ result.name = stem \o <<"_processed.wav">>
           /\ result.type = "audio/wav"

C14_Witness ==
    /\ ProducedWav
    /\ file.name = <<"a", ".", "b", ".", "m">>
    /\ result.name = <<"a", ".", "b", "_processed.wav">>

\* C15: whenever the resampler runs on L samples at rate r it does not fail and
\* hands on 1 channel at 16000 Hz of ceil(L * 16000 / r) samples.
C15_ResamplerLengthCeil ==
    LastStage = "Resample" =>
        LET in == InputOf("Resample")
            out == OutputOf("Resample")
        IN /\ pc # "Failed"
           /\ out.numberOfChannels = 1
           /\ out.sampleRate = 16000
           /\ out.length = Ceil(in.length * 16000, in.sampleRate)

\* C16: in a run with a flag set the resampler runs exactly when the decoded
\* buffer is not 1 channel at 16000 Hz, whatever the resample flag; when it is
\* skipped the next stage receives the decoded buffer itself.
C16_ResamplerCondition ==
    (needsProcessing(options) /\ Len(history) >= 2) =>
        LET decoded == file.bytes.decodesTo
            standard == decoded.sampleRate = 16000 /\ decoded.numberOfChannels = 1
        IN /\ Ran("Resample") <=> ~standard
           /\ Ran("Resample") => history[2].stage = "Resample" /\ history[2].input = decoded
           /\ ~Ran("Resample") => history[2].input = decoded

C16_Witness ==
    /\ pc = "Done"
    /\ ~options.convertToMono16kHz
    /\ options.noiseReduction
    /\ file.bytes.decodesTo.numberOfChannels = 2
    /\ Ran("Resample")

\* C17: a run fails in Decoding only: whenever it has failed, the stage that
\* failed is the decode, also for a buffer whose resampled length is 0.
C17_FailedFromDecodingOnly ==
    pc = "Failed" => (Ran("Decode") /\ LastStage = "Decode")

(***************************************************************************)
(* The batch handler: suspension points, sequencing, fallback.             *)
(***************************************************************************)
\* the positions in calls of the clicks on Cancel that came while processAudio
\* was in flight
CancelsDuringCall ==
    {k \in 1..Len(calls) : calls[k].op = "handleCancel" /\ calls[k].arg.hpc = "processAudio"}
\* the positions in calls of everything but the clicks on Cancel
OwnCalls == {k \in 1..Len(calls) : calls[k].op # "handleCancel"}
Count(op) == Cardinality({k \in 1..Len(calls) : calls[k].op = op})

\* C18: the decode is the only point at which a processAudio run yields: a click
\* on Cancel that comes while the call is in flight finds it in Decoding.
C18_SingleSuspensionPoint ==
    \A k \in CancelsDuringCall : calls[k].arg.pc = "Decoding"

\* C18, amended: a processAudio run yields while reading and decoding the bytes,
\* at the resampling render when the resampler runs, and at the gain render when
\* the normalizer applies a gain; a click on Cancel finds the call at one of
\* these three awaits and cannot come before Trim, Gate or Encode, before a
\* normalizer that applies no gain, or between the end of the call and the
\* handler's next step.
C18_SuspensionPoints ==
    /\ \A k \in CancelsDuringCall : calls[k].arg.pc \in {"Decoding", "Resample", "Normalize"}
    /\ (hpc = "processAudio" /\ pc \in {"Idle", "Trim", "Gate", "Encode", "Done", "Failed"})
          => ~ENABLED HandleCancel
    /\ (hpc = "processAudio" /\ pc = "Normalize"
          /\ RLe(Peak(getChannelData0(processedBuffer)), normalizeFloor))
          => ~ENABLED HandleCancel
    /\ (hpc = "processAudio" /\ pc = "Resample"
          /\ originalBuffer.length * 16000 < originalBuffer.sampleRate)
          => ~ENABLED HandleCancel

C18_Witness ==
    /\ \E k \in CancelsDuringCall : calls[k].arg.pc = "Normalize"
    /\ \E k \in 1..Len(calls) : calls[k].op = "processAudioResolved"

\* C19: the files of a batch are worked on one after the other: the work on a
\* file begins when every file before it has been dealt with, a call made for
\* a file is seen settled before any call for a later file, and processAudio is
\* in flight at most once, for the current file, with the handler waiting for it
\* until it has returned or thrown.
C19_SequentialBatch ==
    /\ hpc \notin {"idle", "returned"} => Len(allContent) = fileIndex
    /\ \A a, b \in 1..Len(calls) : a < b => calls[a].index <= calls[b].index
    /\ \A a, b \in OwnCalls :
          (a < b /\ calls[a].index < calls[b].index
             /\ calls[a].op \in {"processAudio", "transcribeAudio"})
          => \E c \in OwnCalls :
                /\ a < c /\ c < b
                /\ calls[c].index = calls[a].index
                /\ calls[c].op \in IF calls[a].op = "processAudio"
                                   THEN {"processAudioResolved", "processAudioRejected"}
                                   ELSE {"transcribeAudioResolved", "transcribeAudioRejected"}
    /\ \A k \in 1..Len(calls) : calls[k].op = "processAudioResolved" => calls[k].arg = "Done"
    /\ Count("processAudio") - Count("processAudioResolved") - Count("processAudioRejected")
          = IF pc = "NotCalled" THEN 0 ELSE 1
    /\ pc # "NotCalled" => (hpc = "processAudio" /\ file = selectedFiles[fileIndex + 1])

C19_Witness ==
    /\ hpc = "processAudio"
    /\ pc = "Decoding"
    /\ fileIndex = 1
    /\ \E k \in 1..Len(calls) : calls[k].op = "processAudioResolved" /\ calls[k].index = 0
    /\ \E k \in 1..Len(calls) : calls[k].op = "transcribeAudioResolved" /\ calls[k].index = 0

\* C20: processAudio ends a failure without a file and with one decode; when it
\* has thrown and the batch is not cancelled, the next call the handler makes is
\* transcribeAudio for the same file with the original file itself, the failure
\* is not shown as the batch's error, and a batch that ends without cancel and
\* without error has dealt with every file.
C20_CallerFallback ==
    /\ pc = "Failed" =>
          /\ result = NoFile
          /\ Cardinality({k \in 1..Len(history) : history[k].stage = "Decode"}) = 1
    /\ \A k \in 1..Len(calls) :
          (calls[k].op = "processAudioRejected" /\ ~calls[k].arg.cancelled) =>
             LET later == {j \in OwnCalls : j > k}
             IN IF later = {}
                THEN hpc = "fallbackDelay" /\ fileIndex = calls[k].index
                ELSE LET n == CHOOSE j \in later : \A m \in later : j <= m
                     IN /\ calls[n].op = "transcribeAudio"
                        /\ calls[n].arg = "original"
                        /\ calls[n].index = calls[k].index
    /\ (hpc \in {"transcribe", "recvDelay"}
          /\ \E k \in OwnCalls : /\ calls[k].op = "transcribeAudio"
                                 /\ calls[k].arg = "original"
                                 /\ \A j \in OwnCalls : j > k => calls[j].op # "transcribeAudio")
          => fileToProcess = selectedFiles[fileIndex + 1]
    /\ uiError # NoError => Count("transcribeAudioRejected") = 1
    /\ (hpc = "returned" /\ ~cancelRequestRef /\ uiError = NoError)
          => (Len(allContent) = Len(selectedFiles) /\ transcription = allContent)

C20_Witness ==
    /\ hpc = "returned"
    /\ ~cancelRequestRef
    /\ uiError = NoError
    /\ Len(selectedFiles) = 2
    /\ \E k \in 1..Len(calls) :
          /\ calls[k].op = "processAudioRejected"
          /\ calls[k].index = 0
          /\ calls[k].arg.error = DecodeErrorMessage
    /\ \E k \in 1..Len(calls) : calls[k].op = "processAudioResolved" /\ calls[k].index = 1

(***************************************************************************)
(* The encoder's sample conversion.                                        *)
(***************************************************************************)
\* C28: the 16-bit value written for a sample does not wrap: a sample of 1 or
\* more gives 32767, a sample of -1 or less gives -32768, 0 gives 0, and a
\* sample in between gives its scaled value cut toward zero, with the sample's
\* sign and the magnitude between |sample| * 32767 - 1 and |sample| * 32768.
C28_QuantizedRange ==
    pc = "WavDone" =>
        \A ch \in 1..processedBuffer.numberOfChannels : \A k \in 1..processedBuffer.length :
            LET sample == processedBuffer.channels[ch][k]
                n == sample[1]
                d == sample[2]
                at == 44 + 2 * ((k - 1) * processedBuffer.numberOfChannels + (ch - 1))
                v == getInt16(result.bytes, at)
            IN /\ v >= -32768 /\ v <= 32767
               /\ n >= d => v = 32767
               /\ n <= -d => v = -32768
               /\ n = 0 => v = 0
               /\ (-d < n /\ n < d) =>
                     /\ v * n >= 0
                     /\ Abs(v) * d <= Abs(n) * 32768
                     /\ (Abs(v) + 1) * d > Abs(n) * 32767

C28_Witness ==
    /\ pc = "WavDone"
    /\ processedBuffer.numberOfChannels = 1
    /\ processedBuffer.channels[1] = <<(<<3, 2>>), (<<-3, 2>>), MinusOne, (<<-1, 4>>)>>
    /\ getInt16(result.bytes, 44) = 32767
    /\ getInt16(result.bytes, 46) = -32768
    /\ getInt16(result.bytes, 48) = -32768
    /\ getInt16(result.bytes, 50) = -8191

(***************************************************************************)
(* C29: the result of a batch.                                             *)
(***************************************************************************)
TranscriptionFailed ==
    \E k \in 1..Len(calls) : calls[k].op = "transcribeAudioRejected"

BatchCancelled ==
    \E k \in 1..Len(calls) : calls[k].op = "handleCancel"

\* the block line 219, 274 or 281 pushes for a file
IsBlockOf(block, f) ==
    /\ block.from = f.name
    /\ CASE MajorType(f.type) = "text" -> block.text = f.bytes.text
         [] MajorType(f.type) = "audio" ->
                block.text \in {TranscriptOf(f),
                                TranscriptOf([name |-> newFileName(f.name)])}
         [] OTHER -> block.text = "skipped"

LookAheadStep ==
    /\ pc = "Scan"
    /\ scanInSound
    /\ scanIndex < originalBuffer.length
    /\ IsSilent(getChannelData0(originalBuffer), scanIndex)
    /\ scanIndex' # scanIndex

\* the stepwise scan ends with what the Trim stage of the pipeline computes
AgreesWithTrim ==
    /\ pc \in {"Scanned", "Trimmed"} =>
           scanIntervals = SoundIntervals(getChannelData0(originalBuffer),
                                          originalBuffer.sampleRate)
    /\ pc = "Trimmed" => processedBuffer = RemoveSilence(originalBuffer)

\* the buffer the trimmer was given, its length and the minimum run, in samples
TrimInput == getChannelData0(originalBuffer)
TrimLength == originalBuffer.length
TrimMinSilence == minSilenceSamples(originalBuffer.sampleRate)
TrimPadding == paddingSamples(originalBuffer.sampleRate)
ScanOver == pc \in {"Scanned", "Trimmed"}
LookAheads == {k \in 1..Len(reads) : reads[k].by = "lookAhead"}
\* the index after the silent run a look-ahead measured
RunEndOf(read) == IF IsSilent(TrimInput, read.to) THEN read.to + 1 ELSE read.to
AtThreshold(channelData, k) ==
    /\ ~RLt(RAbs(channelData[k + 1]), silenceThreshold)
    /\ ~RLt(silenceThreshold, RAbs(channelData[k + 1]))

\* C21: while in sound, a run of silent samples of at least minSilenceSamples
\* (exactly the minimum included) closes the interval at the run's first index
\* and the scan resumes after the run; a shorter run (one less than the
\* minimum, or one that reaches the end of the buffer) closes nothing and
\* lies inside the interval that is recorded later.
C21_CutRule ==
    /\ [][LookAheadStep =>
            LET first == scanIndex
                after == scanIndex'
            IN /\ first < after /\ after <= TrimLength
               /\ \A k \in first..(after - 1) : IsSilent(TrimInput, k)
               /\ after < TrimLength => ~IsSilent(TrimInput, after)
               /\ IF after - first >= TrimMinSilence
                  THEN /\ scanIntervals' = Append(scanIntervals,
                                                  [start |-> scanSoundStart, end |-> first])
                       /\ ~scanInSound'
                  ELSE /\ scanIntervals' = scanIntervals
                       /\ scanInSound'
                       /\ scanSoundStart' = scanSoundStart]_vars
    /\ [](ScanOver =>
            \A r \in LookAheads :
               LET first == reads[r].from
                   after == RunEndOf(reads[r])
               IN IF after - first >= TrimMinSilence
                  THEN /\ \E k \in 1..Len(scanIntervals) : scanIntervals[k].end = first
                       /\ \A k \in 1..Len(scanIntervals) :
                              scanIntervals[k].end <= first \/ scanIntervals[k].start >= after
                  ELSE \E k \in 1..Len(scanIntervals) :
                          scanIntervals[k].start < first /\ after <= scanIntervals[k].end)

\* a run of exactly the minimum cuts, a run one shorter that reaches the end
\* of the buffer does not
C21_Witness ==
    /\ pc = "Scanned"
    /\ TrimLength = 2 * TrimMinSilence + 1
    /\ \A k \in 0..(TrimLength - 1) :
          IsLoud(TrimInput, k) <=> k \in {0, TrimMinSilence + 1}
    /\ \A k \in 0..(TrimLength - 1) :
          IsSilent(TrimInput, k) <=> k \notin {0, TrimMinSilence + 1}
    /\ scanIntervals = <<[start |-> 0, end |-> 1],
                         [start |-> TrimMinSilence + 1, end |-> TrimLength]>>

\* C22: after the scan every interval has 0 <= start < end <= length, each
\* next interval starts at least minSilenceSamples after the end of the one
\* before it, and when the buffer ended in sound the last interval ends at
\* the buffer's length.
C22_SoundIntervalInvariant ==
    ScanOver =>
        /\ \A k \in 1..Len(scanIntervals) :
              /\ 0 <= scanIntervals[k].start
              /\ scanIntervals[k].start < scanIntervals[k].end
              /\ scanIntervals[k].end <= TrimLength
        /\ \A k \in 1..(Len(scanIntervals) - 1) :
              scanIntervals[k + 1].start >= scanIntervals[k].end + TrimMinSilence
        /\ scanInSound =>
              /\ Len(scanIntervals) > 0
              /\ scanIntervals[Len(scanIntervals)].end = TrimLength

\* two intervals, the second one closed by the end of the buffer
C22_Witness ==
    /\ pc = "Scanned"
    /\ scanInSound
    /\ TrimLength = TrimMinSilence + 2
    /\ scanIntervals = <<[start |-> 0, end |-> 1],
                         [start |-> TrimMinSilence + 1, end |-> TrimLength]>>

\* the write offset at which interval j of the output begins
RECURSIVE BlockStart(_)
BlockStart(j) ==
    IF j = 1 THEN 0
    ELSE BlockStart(j - 1)
         + (scanIntervals[j - 1].end - scanIntervals[j - 1].start) + 2 * TrimPadding

\* C23: with at least one interval the output is as long as the sum of
\* (end - start + 2 * paddingSamples) over the intervals and holds, for each
\* interval in order, paddingSamples zeros, the samples input[start..end)
\* unchanged and in order, and paddingSamples zeros; the write offset ends at
\* the output's length.
C23_Reconstruction ==
    (pc = "Trimmed" /\ Len(scanIntervals) > 0) =>
        LET out == getChannelData0(processedBuffer)
            count == Len(scanIntervals)
        IN /\ processedBuffer.numberOfChannels = 1
           /\ Len(out) = BlockStart(count + 1)
           /\ writeOffset = Len(out)
           /\ \A j \in 1..count :
                 LET at == BlockStart(j)
                     start == scanIntervals[j].start
                     size == scanIntervals[j].end - start
                 IN /\ \A t \in 1..TrimPadding : out[at + t] = Zero
                    /\ \A t \in 1..size : out[at + TrimPadding + t] = TrimInput[start + t]
                    /\ \A t \in 1..TrimPadding : out[at + TrimPadding + size + t] = Zero

\* two intervals, the second of two different samples
C23_Witness ==
    /\ pc = "Trimmed"
    /\ scanIntervals = <<[start |-> 0, end |-> 1],
                         [start |-> TrimMinSilence + 1, end |-> TrimMinSilence + 3]>>
    /\ processedBuffer.length = 3 + 4 * TrimPadding
    /\ getChannelData0(processedBuffer)[TrimPadding + 1] = <<1, 2>>
    /\ getChannelData0(processedBuffer)[3 * TrimPadding + 2] = <<1, 2>>
    /\ getChannelData0(processedBuffer)[3 * TrimPadding + 3] = <<-1, 100>>
    /\ writeOffset = 3 + 4 * TrimPadding

\* C24: the loop variable grows with every iteration, the jump past a silent
\* run included, and never passes the buffer's length; no sample is read by
\* two iterations of the scan or by two look-aheads; an iteration or the exit
\* of the loop is always possible, so the scan ends after at most as many
\* iterations as the buffer has samples.
C24_ScanLinear ==
    /\ [][(pc = "Scan" /\ pc' = "Scan") => scanIndex' > scanIndex]_vars
    /\ [](pc = "Scan" => (scanIndex <= TrimLength /\ ENABLED (ScanIteration \/ ScanExit)))
    /\ [](\A a, b \in 1..Len(reads) :
             /\ 0 <= reads[a].from /\ reads[a].from <= reads[a].to
             /\ reads[a].to < TrimLength
             /\ (a < b /\ reads[a].by = reads[b].by) => reads[a].to < reads[b].from)

\* a look-ahead has measured a run and the scan has gone on from the sample
\* that ended it, which both have read
C24_Witness ==
    /\ pc = "Scanned"
    /\ \E a, b \in 1..Len(reads) :
          /\ a < b
          /\ reads[a].by = "lookAhead" /\ reads[b].by = "scan"
          /\ reads[a].to - reads[a].from >= TrimMinSilence
          /\ reads[b].from = reads[a].to
          /\ \A c \in 1..Len(reads) : reads[c].by = "scan" =>
                 (reads[c].from <= reads[a].from \/ reads[c].from >= reads[a].to)

\* C27: a sample exactly at the threshold opens no interval and, in sound, is
\* not silence: the scan steps over it, and a look-ahead stops at it; every
\* interval starts at a sample strictly above the threshold.
C27_ThresholdBoundary ==
    /\ [][(pc = "Scan" /\ scanIndex < TrimLength /\ AtThreshold(TrimInput, scanIndex)
             /\ scanIndex' # scanIndex) =>
               /\ scanIndex' = scanIndex + 1
               /\ UNCHANGED <<scanInSound, scanSoundStart, scanIntervals>>]_vars
    /\ [][LookAheadStep =>
              \A k \in scanIndex..(scanIndex' - 1) : ~AtThreshold(TrimInput, k)]_vars
    /\ [](/\ \A k \in 1..Len(scanIntervals) :
                RLt(silenceThreshold, RAbs(TrimInput[scanIntervals[k].start + 1]))
          /\ (pc = "Scan" /\ scanInSound) =>
                RLt(silenceThreshold, RAbs(TrimInput[scanSoundStart + 1])))

\* a threshold sample before the sound opens nothing; one after a run one
\* short of the minimum ends the look-ahead, and nothing is cut
C27_Witness ==
    /\ pc = "Scanned"
    /\ TrimLength = TrimMinSilence + 2
    /\ AtThreshold(TrimInput, 0)
    /\ AtThreshold(TrimInput, TrimMinSilence + 1)
    /\ \A k \in 2..TrimMinSilence : IsSilent(TrimInput, k)
    /\ scanIntervals = <<[start |-> 1, end |-> TrimLength]>>

(***************************************************************************)
(* C25: a cancelled batch and the batch started after it.                  *)
(***************************************************************************)
\* the position in calls of the second click on Process, 0 before it
SecondStart ==
    IF \E k \in 1..Len(calls) : calls[k].op = "handleProcessFile"
    THEN CHOOSE k \in 1..Len(calls) : calls[k].op = "handleProcessFile"
    ELSE 0

\* handleCancel ran after invocation r had started
RunCancelled(r) ==
    \E k \in 1..Len(calls) :
        /\ calls[k].op = "handleCancel"
        /\ r = 2 => (SecondStart # 0 /\ k > SecondStart)

\* invocation r has started and has not reached its end
InFlight(r) ==
    IF r = run THEN hpc \notin {"idle", "returned"}
    ELSE other # NoRun /\ other.hpc # "returned"

\* C25: once handleCancel has run during a batch, that batch run sets neither
\* the transcription nor the error again, also when a new batch is started
\* before its pending await resolves; isLoading is true whenever a batch run
\* that was not cancelled is in flight.
C25_CancelledStaysCancelled ==
    /\ [][(run' = run /\ RunCancelled(run)) => UNCHANGED <<transcription, uiError>>]_vars
    /\ [](\A r \in {1, 2} : (InFlight(r) /\ ~RunCancelled(r)) => isLoading)

(***************************************************************************)
(* C26: cancelling the generation of minutes or an edit request.           *)
(***************************************************************************)
\* C26: once handleCancel has run while handleGenerateMinutes or
\* handleRequestEdits is in progress, the delay after the service's answer
\* included, that request stores no minutes HTML and prepends no session.
C26_CancelIsFinal ==
    [][(MinutesSuspended /\ cancelRequestRef) =>
          UNCHANGED <<meetingMinutesHtml, savedSessions>>]_vars

====
